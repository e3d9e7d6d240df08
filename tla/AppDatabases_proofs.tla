-------------------------- MODULE AppDatabases_proofs --------------------------
(***************************************************************************)
(* Proofs about AppDatabases: handles are pooled, held and closed without  *)
(* one being lost, batches are whole, and watchers do not stay behind,     *)
(* whatever the number of requests, watchers, handles and deletions.       *)
(***************************************************************************)
EXTENDS AppDatabases, Services, FiniteSetTheorems, TLAPS

\* A request has a handle once it was given one, of the mode its caller may
\* use.  The one it opened itself is nobody else's until it is pooled.
RequestsHoldHandles ==
    \A c \in Clients : LET h == calls[c].handle IN
        /\ calls[c].pc \in {"idle", "ask", "open"} => h = NoHandle
        /\ calls[c].pc \in {"pool", "acquire", "run"} =>
             /\ h \in Handles
             /\ handles[h].state # "unused"
             /\ handles[h].mode = Mode(calls[c].face)
        /\ calls[c].pc = "pool" =>
             /\ handles[h].state = "open"
             /\ \A m \in Modes : pool[m].handle # h
             /\ \A d \in Clients \ {c} : calls[d].handle # h
        /\ calls[c].pc = "run" => handles[h].holder = c

\* The pool holds open handles of its modes.
PooledAreOpen ==
    \A m \in Modes : pool[m].handle # NoHandle =>
        handles[pool[m].handle].state = "open" /\ handles[pool[m].handle].mode = m

\* A handle is on a file that had the name once; an open one is on the file
\* that has it now, unless a deletion got in between or took its app away.
HandlesAreOnFiles ==
    \A h \in Handles :
        /\ handles[h].state # "unused" =>
             /\ handles[h].inode \in 0..unlinked
             /\ file = NoFile => handles[h].inode # unlinked
             /\ handles[h].hub = hub
             /\ hub # 0
        /\ handles[h].state = "open" =>
             /\ handles[h].inode = file \/ handles[h].raced
             /\ deleting => handles[h].raced
             /\ settled => handles[h].inode = file

\* The name goes to one file after another, each new one empty.
FilesFollow ==
    /\ file \in {NoFile, unlinked}
    /\ deleting => unlinked < MaxDeletions
    /\ \A i \in Inodes : content[i] # {} =>
         i \in 0..unlinked /\ (file = NoFile => i # unlinked)

\* Watchers sit on the one hub and read through the members' handle, once
\* they have subscribed.
WatchersRead ==
    \A w \in Watchers :
        /\ calls[w].kind = "read" /\ calls[w].face = "member"
        /\ subs[w].hub \in {0, hub}
        /\ subs[w].hub = 0 => Ready(w) /\ subs[w].pending = 0

\* A batch stages its first statement and then its second, while it runs on a
\* connection that may write.
StagedInOrder ==
    \A c \in Clients :
        /\ calls[c].staged # {} =>
             /\ calls[c].pc = "run"
             /\ handles[calls[c].handle].mode = "rw"
        /\ \E k \in Nat : calls[c].staged \in {{}, {<<k, 1>>}, {<<k, 1>>, <<k, 2>>}}

\* What an open batch wrote, every watcher has heard of or will read.
BatchesAreHeard ==
    \A c \in Clients : calls[c].staged # {} /\ handles[calls[c].handle].state = "open" =>
        \A w \in Watchers : subs[w].hub # 0 => subs[w].pending > 0 \/ ~Ready(w)

\* What holds of the handles: the parts HandlesAreKept rests on.
HInv ==
    /\ TypeOK
    /\ RequestsHoldHandles
    /\ PooledAreOpen
    /\ HandlesAreOnFiles
    /\ FilesFollow
    /\ NoHandleLeaks
    /\ ConnectionsAreHeldByRunners
    /\ WatchersRead
    /\ StagedInOrder

-----------------------------------------------------------------------------
(* Handles                                                                 *)

\* A request doing nothing and a handle never opened are like any other.
LEMMA NothingTyped ==
    /\ Idle \in Call /\ Idle.pc = "idle" /\ Idle.handle = NoHandle /\ Idle.staged = {}
    /\ Idle.kind = "read" /\ Idle.face = "member"
    /\ Unused \in Handle /\ Unused.state = "unused" /\ Unused.holder = NoCaller
    /\ \A c \in Clients : /\ Again(c) \in Call
                          /\ Again(c).pc = IF c \in Watchers THEN "ask" ELSE "idle"
                          /\ Again(c).handle = NoHandle /\ Again(c).staged = {}
                          /\ Again(c).kind = "read" /\ Again(c).face = "member"
BY DEF Idle, Unused, Call, Handle, Again, Modes

\* Collecting forgets closed handles that nobody has, and nothing else.
LEMMA CollectedOnly ==
    ASSUME NEW hs \in [Handles -> Handle], NEW leaving, NEW h \in Handles
    PROVE  LET k == Collected(hs, leaving)[h] IN
           /\ Collected(hs, leaving) \in [Handles -> Handle]
           /\ \/ k = hs[h]
              \/ /\ k = Unused
                 /\ hs[h].state = "closed" /\ hs[h].holder = NoCaller
                 /\ \A d \in Clients \ leaving : calls[d].handle # h
BY NothingTyped DEF Collected

\* What a request leaves of a handle when it goes on to something else: its
\* connection is free, and the handle it opened for nothing is closed.
LetsGo(c) ==
    \A h \in Handles :
        \/ /\ handles'[h].mode = handles[h].mode
           /\ handles'[h].inode = handles[h].inode
           /\ handles'[h].hub = handles[h].hub
           /\ handles'[h].raced = handles[h].raced
           /\ handles'[h].state = IF calls[c].pc = "pool" /\ calls[c].handle = h
                                  THEN "closed" ELSE handles[h].state
           /\ handles'[h].holder = IF handles[h].holder = c THEN NoCaller ELSE handles[h].holder
        \/ /\ handles'[h] = Unused
           /\ \/ handles[h].state = "closed"
              \/ calls[c].pc = "pool" /\ calls[c].handle = h
           /\ handles[h].holder \in {c, NoCaller}
           /\ \A d \in Clients \ {c} : calls[d].handle # h

\* A request that has no handle, or was just given the pooled one.
Between(new) ==
    /\ new \in Call /\ new.staged = {}
    /\ \/ new.pc \in {"idle", "ask", "open"} /\ new.handle = NoHandle
       \/ /\ new.pc = "acquire"
          /\ new.handle = pool[Mode(new.face)].handle
          /\ new.handle # NoHandle

\* The pool keeps its handles.
PoolStays ==
    /\ pool' \in [Modes -> Entry]
    /\ \A m \in Modes : pool'[m].handle = pool[m].handle

\* Every face has its mode.
LEMMA ModesOfFaces ==
    /\ \A face : Mode(face) \in Modes
    /\ \A call \in Call : call.face \in {"member", "reader"}
BY DEF Mode, Modes, Call

\* A request that releases its connection lets go.
LEMMA ReleasedLetsGo ==
    ASSUME HInv, NEW c \in Clients, calls[c].pc \in {"acquire", "run"}, handles' = Released(c)
    PROVE  /\ handles' \in [Handles -> Handle]
           /\ LetsGo(c)
<1> DEFINE g == calls[c].handle
           hs == [handles EXCEPT ![g].holder = IF @ = c THEN NoCaller ELSE @]
<1>1. /\ handles \in [Handles -> Handle]
      /\ g \in Handles
    BY DEF HInv, TypeOK, RequestsHoldHandles
<1>2. \A h \in Handles : handles[h].holder = c => h = g
    BY ParametersAssumption DEF HInv, ConnectionsAreHeldByRunners, Clients
<1>3. hs = [handles EXCEPT ![g] = [handles[g] EXCEPT !.holder = IF handles[g].holder = c THEN NoCaller ELSE handles[g].holder]]
    BY <1>1
<1>4. [handles[g] EXCEPT !.holder = IF handles[g].holder = c THEN NoCaller ELSE handles[g].holder] \in Handle
    BY <1>1 DEF Handle
<1>5. hs \in [Handles -> Handle]
    BY <1>1, <1>3, <1>4
<1>6. \A h \in Handles :
        /\ hs[h].mode = handles[h].mode
        /\ hs[h].inode = handles[h].inode
        /\ hs[h].hub = handles[h].hub
        /\ hs[h].raced = handles[h].raced
        /\ hs[h].state = handles[h].state
        /\ hs[h].holder = IF handles[h].holder = c THEN NoCaller ELSE handles[h].holder
  <2> TAKE h \in Handles
  <2>1. CASE h = g
    <3>1. handles[g] \in Handle
        BY <1>1
    <3> QED BY <1>1, <1>3, <2>1, <3>1 DEF Handle
  <2>2. CASE h # g
      BY <1>1, <1>2, <1>3, <2>2
  <2> QED BY <2>1, <2>2
<1>7. handles' = Collected(hs, {c})
    BY DEF Released
<1> HIDE DEF hs
<1>8. handles' \in [Handles -> Handle]
    BY <1>5, <1>7, NothingTyped DEF Collected
<1>9. \A h \in Handles :
        \/ handles'[h] = hs[h]
        \/ /\ handles'[h] = Unused
           /\ hs[h].state = "closed" /\ hs[h].holder = NoCaller
           /\ \A d \in Clients \ {c} : calls[d].handle # h
    BY <1>5, <1>7, CollectedOnly
<1>10. calls[c].pc # "pool"
    OBVIOUS
<1>11. LetsGo(c)
    BY <1>6, <1>9, <1>10 DEF LetsGo
<1> QED BY <1>8, <1>11

-----------------------------------------------------------------------------
(* A request goes on to something else                                     *)

\* The parts of HInv that speak of the handles and those who hold them.
Holding ==
    /\ RequestsHoldHandles
    /\ PooledAreOpen
    /\ HandlesAreOnFiles
    /\ NoHandleLeaks
    /\ ConnectionsAreHeldByRunners
    /\ StagedInOrder

\* Whatever a request goes on to, the handles stay accounted for.
LEMMA MovesOn ==
    ASSUME HInv, NEW c \in Clients, NEW new \in Call, Between(new),
           calls' = [calls EXCEPT ![c] = new],
           handles' \in [Handles -> Handle], LetsGo(c), PoolStays,
           UNCHANGED <<file, unlinked, deleting>>, hub' = hub \/ hub' = HubOf,
           settled' => settled
    PROVE  Holding'
<1>1. /\ calls \in [Clients -> Call] /\ calls' \in [Clients -> Call]
      /\ calls'[c] = new
      /\ \A d \in Clients \ {c} : calls'[d] = calls[d]
    BY DEF HInv, TypeOK
<1>2. NoHandle \notin Handles /\ NoCaller \notin Clients
    BY ParametersAssumption DEF Clients
<1>3. Unused.state = "unused" /\ Unused.holder = NoCaller
    BY NothingTyped
<1>4. \A m \in Modes : pool[m].handle \in Handles \cup {NoHandle}
    BY DEF HInv, TypeOK, Entry
<1>5. \A h \in Handles : (\E m \in Modes : pool[m].handle = h) =>
        /\ handles'[h].state = "open" /\ handles[h].state = "open"
        /\ handles'[h].mode = handles[h].mode
        /\ ~(calls[c].pc = "pool" /\ calls[c].handle = h)
    BY <1>2 DEF HInv, PooledAreOpen, RequestsHoldHandles, LetsGo
<1>6. Mode(new.face) \in Modes
    BY ModesOfFaces
<1>7. \A h \in Handles, d \in Clients \ {c} : calls[d].handle = h =>
        /\ handles'[h].mode = handles[h].mode
        /\ handles'[h].state = IF calls[c].pc = "pool" /\ calls[c].handle = h
                               THEN "closed" ELSE handles[h].state
        /\ handles[h].holder = d => handles'[h].holder = d
    BY DEF LetsGo
<1>8. RequestsHoldHandles'
  <2>1. ASSUME NEW d \in Clients \ {c}
        PROVE  LET h == calls[d].handle IN
               /\ calls[d].pc \in {"idle", "ask", "open"} => h = NoHandle
               /\ calls[d].pc \in {"pool", "acquire", "run"} =>
                    /\ h \in Handles
                    /\ handles'[h].state # "unused"
                    /\ handles'[h].mode = Mode(calls[d].face)
               /\ calls[d].pc = "pool" =>
                    /\ handles'[h].state = "open"
                    /\ \A m \in Modes : pool'[m].handle # h
                    /\ \A e \in Clients \ {d} : calls'[e].handle # h
               /\ calls[d].pc = "run" => handles'[h].holder = d
    <3> DEFINE h == calls[d].handle
    <3>1. /\ calls[d].pc \in {"idle", "ask", "open"} => h = NoHandle
          /\ calls[d].pc \in {"pool", "acquire", "run"} => h \in Handles
        BY DEF HInv, RequestsHoldHandles
    <3>2. calls[d].pc \in {"pool", "acquire", "run"} =>
            /\ handles'[h].state # "unused"
            /\ handles'[h].mode = Mode(calls[d].face)
        BY <1>7, <3>1 DEF HInv, RequestsHoldHandles
    <3>3. calls[d].pc = "pool" =>
            /\ handles'[h].state = "open"
            /\ \A m \in Modes : pool'[m].handle # h
            /\ \A e \in Clients \ {d} : calls'[e].handle # h
      <4> SUFFICES ASSUME calls[d].pc = "pool"
                   PROVE  /\ handles'[h].state = "open"
                          /\ \A m \in Modes : pool'[m].handle # h
                          /\ \A e \in Clients \ {d} : calls'[e].handle # h
          OBVIOUS
      <4>1. /\ handles[h].state = "open"
            /\ \A m \in Modes : pool[m].handle # h
            /\ \A e \in Clients \ {d} : calls[e].handle # h
          BY DEF HInv, RequestsHoldHandles
      <4>2. handles'[h].state = "open"
          BY <1>7, <3>1, <4>1
      <4>3. new.handle # h
          BY <1>2, <1>6, <3>1, <4>1 DEF Between
      <4> QED BY <1>1, <4>1, <4>2, <4>3 DEF PoolStays
    <3>4. calls[d].pc = "run" => handles'[h].holder = d
        BY <1>7, <3>1 DEF HInv, RequestsHoldHandles
    <3> QED BY <3>1, <3>2, <3>3, <3>4
  <2>2. /\ new.pc \in {"idle", "ask", "open"} => new.handle = NoHandle
        /\ new.pc \in {"pool", "acquire", "run"} =>
             /\ new.pc = "acquire"
             /\ new.handle \in Handles
             /\ handles'[new.handle].state # "unused"
             /\ handles'[new.handle].mode = Mode(new.face)
    <3>1. CASE new.handle = NoHandle
        BY <3>1 DEF Between
    <3>2. CASE new.handle # NoHandle
      <4>1. new.pc = "acquire" /\ new.handle = pool[Mode(new.face)].handle /\ new.handle \in Handles
          BY <1>4, <1>6, <3>2 DEF Between
      <4>2. handles[new.handle].mode = Mode(new.face)
          BY <1>6, <3>2, <4>1 DEF HInv, PooledAreOpen
      <4> QED BY <1>5, <1>6, <4>1, <4>2
    <3> QED BY <3>1, <3>2
  <2> QED BY <1>1, <2>1, <2>2 DEF RequestsHoldHandles
<1>9. PooledAreOpen'
    BY <1>4, <1>5 DEF HInv, PooledAreOpen, PoolStays
<1>10. HandlesAreOnFiles'
  <2>1. \A h \in Handles : handles'[h].state # "unused" =>
          /\ handles[h].state # "unused"
          /\ handles'[h].inode = handles[h].inode
          /\ handles'[h].hub = handles[h].hub
          /\ handles'[h].raced = handles[h].raced
          /\ handles'[h].state = "open" => handles[h].state = "open"
      BY <1>3 DEF LetsGo, HInv, RequestsHoldHandles
  <2>2. hub # 0 => hub' = hub
      BY DEF HubOf
  <2> QED BY <2>1, <2>2 DEF HInv, HandlesAreOnFiles
<1>11. NoHandleLeaks'
  <2> SUFFICES ASSUME NEW h \in Handles, handles'[h].state = "open"
               PROVE  \/ \E m \in Modes : pool'[m].handle = h
                      \/ \E d \in Clients : calls'[d].pc = "pool" /\ calls'[d].handle = h
      BY DEF NoHandleLeaks
  <2>1. handles[h].state = "open" /\ ~(calls[c].pc = "pool" /\ calls[c].handle = h)
      BY <1>3 DEF LetsGo
  <2> QED BY <1>1, <2>1 DEF HInv, NoHandleLeaks, PoolStays
<1>12. ConnectionsAreHeldByRunners'
  <2> SUFFICES ASSUME NEW h \in Handles, handles'[h].holder # NoCaller
               PROVE  /\ calls'[handles'[h].holder].pc = "run"
                      /\ calls'[handles'[h].holder].handle = h
      BY DEF ConnectionsAreHeldByRunners
  <2>1. handles'[h].holder = handles[h].holder /\ handles[h].holder # c
      BY <1>2, <1>3 DEF LetsGo
  <2>2. handles[h].holder \in Clients
      BY <2>1 DEF HInv, TypeOK, Handle
  <2> QED BY <1>1, <2>1, <2>2 DEF HInv, ConnectionsAreHeldByRunners
<1>13. StagedInOrder'
  <2>1. ASSUME NEW d \in Clients
        PROVE  /\ calls'[d].staged # {} =>
                    /\ calls'[d].pc = "run"
                    /\ handles'[calls'[d].handle].mode = "rw"
               /\ \E k \in Nat : calls'[d].staged \in {{}, {<<k, 1>>}, {<<k, 1>>, <<k, 2>>}}
    <3>1. CASE d = c
        BY <1>1, <3>1 DEF Between
    <3>2. CASE d # c
      <4>1. calls'[d] = calls[d]
          BY <1>1, <3>2
      <4>2. \E k \in Nat : calls[d].staged \in {{}, {<<k, 1>>}, {<<k, 1>>, <<k, 2>>}}
          BY DEF HInv, StagedInOrder
      <4>3. calls[d].staged # {} =>
              /\ calls[d].pc = "run"
              /\ handles[calls[d].handle].mode = "rw"
              /\ calls[d].handle \in Handles
          BY DEF HInv, StagedInOrder, RequestsHoldHandles
      <4> QED BY <1>7, <3>2, <4>1, <4>2, <4>3
    <3> QED BY <3>1, <3>2
  <2> QED BY <2>1 DEF StagedInOrder
<1> QED BY <1>8, <1>9, <1>10, <1>11, <1>12, <1>13 DEF Holding

\* A request with no connection lets go of nothing.
LEMMA NothingToLetGo ==
    ASSUME HInv, NEW c \in Clients, calls[c].pc \notin {"pool", "run"}, UNCHANGED handles
    PROVE  handles' \in [Handles -> Handle] /\ LetsGo(c)
<1>1. \A h \in Handles : handles[h].holder # c
    BY ParametersAssumption DEF HInv, ConnectionsAreHeldByRunners, Clients
<1>2. handles' \in [Handles -> Handle]
    BY DEF HInv, TypeOK
<1> QED BY <1>1, <1>2 DEF LetsGo

\* A pool that is left alone stays.
LEMMA SamePool ==
    ASSUME HInv, UNCHANGED pool
    PROVE  PoolStays
BY DEF HInv, TypeOK, PoolStays

\* Watchers go on reading whatever else happens.
LEMMA WatchersStay ==
    ASSUME HInv, NEW c \in Clients, NEW new \in Call,
           calls' = [calls EXCEPT ![c] = new],
           c \in Watchers => new.kind = "read" /\ new.face = "member",
           hub' = hub \/ hub' = HubOf,
           \A w \in Watchers : \/ subs'[w] = subs[w]
                               \/ w = c /\ subs'[w].hub \in {subs[w].hub, hub'} \ {0},
           c \in Watchers /\ subs'[c].hub = 0 => new.pc = "idle"
    PROVE  WatchersRead'
<1>1. calls'[c] = new /\ \A w \in Watchers \ {c} : calls'[w] = calls[w]
    BY DEF HInv, TypeOK, Clients
<1>2. hub # 0 => hub' = hub
    BY DEF HubOf
<1>3. \A w \in Watchers : subs'[w].hub \in {0, hub'}
    BY <1>2 DEF HInv, WatchersRead
<1> QED BY <1>1, <1>3 DEF HInv, WatchersRead, Ready

\* The hub that was found or made.
LEMMA HubTyped ==
    ASSUME HInv, hub' = hub \/ hub' = HubOf
    PROVE  hub' \in Nat
BY DEF HInv, TypeOK, HubOf

\* Asking the pool gives a request its handle, or sends it to open one.
LEMMA LookupMoves ==
    ASSUME HInv, NEW c \in Clients, NEW kind \in {"read", "write"},
           NEW face \in {"member", "reader"}, Lookup(c, kind, face)
    PROVE  /\ PoolStays
           /\ \E new \in Call :
                /\ Between(new)
                /\ calls' = [calls EXCEPT ![c] = new]
                /\ new.kind = kind /\ new.face = face
                /\ new.pc \in {"acquire", "open"}
<1> DEFINE m == Mode(face)
           got == [Idle EXCEPT !.pc = "acquire", !.kind = kind, !.face = face, !.handle = pool[m].handle]
           none == [Idle EXCEPT !.pc = "open", !.kind = kind, !.face = face]
<1>1. m \in Modes /\ pool \in [Modes -> Entry] /\ pool[m] \in Entry
    BY ModesOfFaces DEF HInv, TypeOK
<1>2. CASE pool[m].handle # NoHandle
  <2>1. pool' = [pool EXCEPT ![m] = [pool[m] EXCEPT !.idle = FALSE]]
      BY <1>2 DEF Lookup
  <2>2. [pool[m] EXCEPT !.idle = FALSE] \in Entry
        /\ [pool[m] EXCEPT !.idle = FALSE].handle = pool[m].handle
      BY <1>1 DEF Entry
  <2>3. PoolStays
      BY <1>1, <2>1, <2>2 DEF PoolStays
  <2>4. /\ got \in Call /\ got.pc = "acquire" /\ got.kind = kind /\ got.face = face
        /\ got.handle = pool[m].handle /\ got.staged = {}
      BY <1>1 DEF Idle, Call, Entry
  <2>5. calls' = [calls EXCEPT ![c] = got]
      BY <1>2 DEF Lookup
  <2> HIDE DEF got
  <2>6. Between(got)
      BY <1>2, <2>4 DEF Between
  <2> QED BY <2>3, <2>4, <2>5, <2>6
<1>3. CASE pool[m].handle = NoHandle
  <2>1. PoolStays
      BY <1>3, SamePool DEF Lookup
  <2>2. /\ none \in Call /\ none.pc = "open" /\ none.kind = kind /\ none.face = face
        /\ none.handle = NoHandle /\ none.staged = {}
      BY DEF Idle, Call
  <2>3. calls' = [calls EXCEPT ![c] = none]
      BY <1>3 DEF Lookup
  <2> HIDE DEF none
  <2>4. Between(none)
      BY <2>2 DEF Between
  <2> QED BY <2>1, <2>2, <2>3, <2>4
<1> QED BY <1>2, <1>3

\* An answer moves its request back to where it can ask.
LEMMA AgainMoves ==
    ASSUME HInv, NEW c \in Clients
    PROVE  /\ Between(Idle) /\ Between(Again(c))
           /\ c \in Watchers => Again(c).pc = "ask"
BY NothingTyped DEF Between

-----------------------------------------------------------------------------
(* Requests and watchers, step by step                                     *)

\* Parts of HInv that other variables alone can disturb.
LEMMA HInvParts ==
    ASSUME TypeOK', Holding', FilesFollow', WatchersRead'
    PROVE  HInv'
BY DEF HInv, Holding

\* A member asks.
LEMMA AskQueryStep ==
    ASSUME HInv, NEW c \in Callers, AskQuery(c)
    PROVE  HInv'
<1>1. PICK kind \in {"read", "write"}, face \in Faces : Lookup(c, kind, face)
    BY DEF AskQuery
<1>2. face \in {"member", "reader"} /\ c \in Clients /\ c \notin Watchers
    BY ParametersAssumption DEF Clients
<1>3. PICK new \in Call : Between(new) /\ calls' = [calls EXCEPT ![c] = new]
    BY <1>1, <1>2, LookupMoves
<1>4. PoolStays
    BY <1>1, <1>2, LookupMoves
<1>5. /\ Ready(c)
      /\ UNCHANGED <<handles, file, content, hub, subs, views, writes, unlinked, deleting, settled>>
    BY DEF AskQuery
<1>6. handles' \in [Handles -> Handle] /\ LetsGo(c)
    BY <1>2, <1>5, NothingToLetGo DEF Ready
<1>7. Holding'
    BY <1>2, <1>3, <1>4, <1>5, <1>6, MovesOn
<1>8. WatchersRead'
    BY <1>2, <1>3, <1>5, WatchersStay
<1>9. TypeOK'
    BY <1>2, <1>3, <1>4, <1>5 DEF HInv, TypeOK, PoolStays
<1>10. FilesFollow'
    BY <1>5 DEF HInv, FilesFollow
<1> QED BY <1>7, <1>8, <1>9, <1>10, HInvParts

\* A watcher asks again.
LEMMA QueryAgainStep ==
    ASSUME HInv, NEW w \in Watchers, QueryAgain(w)
    PROVE  HInv'
<1>1. w \in Clients
    BY DEF Clients
<1>2. PICK new \in Call :
        /\ Between(new) /\ calls' = [calls EXCEPT ![w] = new]
        /\ new.kind = "read" /\ new.face = "member"
    BY <1>1, LookupMoves DEF QueryAgain
<1>3. PoolStays
    BY <1>1, LookupMoves DEF QueryAgain
<1>4. /\ calls[w].pc = "ask"
      /\ UNCHANGED <<handles, file, content, hub, subs, views, writes, unlinked, deleting, settled>>
    BY DEF QueryAgain
<1>5. handles' \in [Handles -> Handle] /\ LetsGo(w)
    BY <1>1, <1>4, NothingToLetGo
<1>6. Holding'
    BY <1>1, <1>2, <1>3, <1>4, <1>5, MovesOn
<1>7. subs[w].hub # 0
    BY <1>4 DEF HInv, WatchersRead, Ready
<1>8. WatchersRead'
    BY <1>1, <1>2, <1>4, <1>7, WatchersStay
<1>9. TypeOK'
    BY <1>1, <1>2, <1>3, <1>4 DEF HInv, TypeOK, PoolStays
<1>10. FilesFollow'
    BY <1>4 DEF HInv, FilesFollow
<1> QED BY <1>6, <1>8, <1>9, <1>10, HInvParts

\* A handle could not be opened.
LEMMA OpenFailsStep ==
    ASSUME HInv, NEW c \in Clients, OpenFails(c)
    PROVE  HInv'
<1> DEFINE new == Again(c)
<1>1. /\ calls[c].pc = "open" /\ calls' = [calls EXCEPT ![c] = new] /\ hub' = HubOf
      /\ UNCHANGED <<pool, handles, file, content, subs, views, writes, unlinked, deleting, settled>>
    BY DEF OpenFails
<1>2. new \in Call /\ Between(new) /\ new.kind = "read" /\ new.face = "member"
    BY NothingTyped, AgainMoves
<1> HIDE DEF new
<1>3. handles' \in [Handles -> Handle] /\ LetsGo(c)
    BY <1>1, NothingToLetGo
<1>4. PoolStays
    BY <1>1, SamePool
<1>5. Holding'
    BY <1>1, <1>2, <1>3, <1>4, MovesOn
<1>6. c \in Watchers => subs[c].hub # 0
    BY <1>1 DEF HInv, WatchersRead, Ready
<1>7. WatchersRead'
    BY <1>1, <1>2, <1>6, WatchersStay
<1>8. TypeOK'
  <2>1. hub' \in Nat
      BY <1>1, HubTyped
  <2> QED BY <1>1, <1>2, <2>1 DEF HInv, TypeOK
<1>9. FilesFollow'
    BY <1>1 DEF HInv, FilesFollow
<1> QED BY <1>5, <1>7, <1>8, <1>9, HInvParts

\* A request that has its answer, or an error, releases its connection.
LEMMA ReleaseStep ==
    ASSUME HInv, NEW c \in Clients, calls[c].pc \in {"acquire", "run"}, handles' = Released(c),
           calls' = [calls EXCEPT ![c] = Again(c)] \/ calls' = [calls EXCEPT ![c] = Idle],
           UNCHANGED <<pool, file, hub, subs, unlinked, deleting>>, settled' => settled
    PROVE  Holding' /\ WatchersRead' /\ calls' \in [Clients -> Call]
           /\ handles' \in [Handles -> Handle]
<1>1. PICK new \in {Idle, Again(c)} : calls' = [calls EXCEPT ![c] = new]
    OBVIOUS
<1>2. new \in Call /\ Between(new) /\ new.kind = "read" /\ new.face = "member"
    BY NothingTyped, AgainMoves
<1>3. handles' \in [Handles -> Handle] /\ LetsGo(c)
    BY ReleasedLetsGo
<1>4. PoolStays
    BY SamePool
<1>5. Holding'
    BY <1>1, <1>2, <1>3, <1>4, MovesOn
<1>6. c \in Watchers => subs[c].hub # 0
    BY DEF HInv, WatchersRead, Ready
<1>7. WatchersRead'
    BY <1>1, <1>2, <1>6, WatchersStay
<1>8. calls' \in [Clients -> Call]
    BY <1>1, <1>2 DEF HInv, TypeOK
<1> QED BY <1>3, <1>5, <1>7, <1>8

\* The handle is closed, or a statement fails.
LEMMA HandleGoneStep ==
    ASSUME HInv, NEW c \in Clients, HandleGone(c) \/ StatementFails(c)
    PROVE  HInv'
<1>1. /\ calls[c].pc \in {"acquire", "run"} /\ handles' = Released(c)
      /\ calls' = [calls EXCEPT ![c] = Again(c)]
      /\ UNCHANGED <<pool, file, content, hub, subs, views, writes, unlinked, deleting, settled>>
    BY DEF HandleGone, StatementFails, Available
<1>2. Holding' /\ WatchersRead' /\ calls' \in [Clients -> Call] /\ handles' \in [Handles -> Handle]
    BY <1>1, ReleaseStep
<1>3. TypeOK'
    BY <1>1, <1>2 DEF HInv, TypeOK
<1>4. FilesFollow'
    BY <1>1 DEF HInv, FilesFollow
<1> QED BY <1>2, <1>3, <1>4, HInvParts

\* A batch commits to the file its handle is on.
LEMMA CommitStep ==
    ASSUME HInv, NEW c \in Clients, Commit(c)
    PROVE  HInv'
<1> DEFINE i == handles[calls[c].handle].inode
<1>1. /\ calls[c].pc = "run" /\ handles' = Released(c)
      /\ calls' = [calls EXCEPT ![c] = Idle]
      /\ content' = [content EXCEPT ![i] = @ \cup calls[c].staged]
      /\ UNCHANGED <<pool, file, hub, subs, views, writes, unlinked, deleting>>
      /\ settled' = (settled /\ handles[calls[c].handle].state = "open")
    BY DEF Commit
<1>2. settled' \in BOOLEAN /\ (settled' => settled)
    BY <1>1
<1>3. Holding' /\ WatchersRead' /\ calls' \in [Clients -> Call] /\ handles' \in [Handles -> Handle]
    BY <1>1, <1>2, ReleaseStep
<1>4. calls[c].staged \subseteq Statements
    BY DEF HInv, TypeOK, Call
<1>5. content' \in [Inodes -> SUBSET Statements]
    BY <1>1, <1>4 DEF HInv, TypeOK
<1>6. TypeOK'
    BY <1>1, <1>2, <1>3, <1>5 DEF HInv, TypeOK
<1>7. i \in 0..unlinked /\ (file = NoFile => i # unlinked)
    BY <1>1 DEF HInv, RequestsHoldHandles, HandlesAreOnFiles
<1>8. FilesFollow'
    BY <1>1, <1>7 DEF HInv, FilesFollow, TypeOK
<1> QED BY <1>3, <1>6, <1>8, HInvParts

\* A reader reads from the file its handle is on.
LEMMA ReadStep ==
    ASSUME HInv, NEW c \in Clients, Read(c)
    PROVE  HInv'
<1> DEFINE i == handles[calls[c].handle].inode
<1>1. /\ calls[c].pc = "acquire"
      /\ views' = IF c \in Watchers THEN [views EXCEPT ![c] = content[i]] ELSE views
      /\ calls' = [calls EXCEPT ![c] = Idle]
      /\ UNCHANGED <<pool, handles, file, content, hub, subs, writes, unlinked, deleting, settled>>
    BY DEF Read, Available
<1>2. Idle \in Call /\ Between(Idle) /\ Idle.kind = "read" /\ Idle.face = "member" /\ Idle.pc = "idle"
    BY NothingTyped, AgainMoves
<1>3. handles' \in [Handles -> Handle] /\ LetsGo(c)
    BY <1>1, NothingToLetGo
<1>4. PoolStays
    BY <1>1, SamePool
<1>5. Holding'
    BY <1>1, <1>2, <1>3, <1>4, MovesOn
<1>6. WatchersRead'
    BY <1>1, <1>2, WatchersStay
<1>7. i \in Inodes
  <2>1. i \in 0..unlinked /\ unlinked \in 0..MaxDeletions
      BY <1>1 DEF HInv, TypeOK, RequestsHoldHandles, HandlesAreOnFiles
  <2> QED BY <2>1, ParametersAssumption DEF Inodes
<1>8. views' \in [Watchers -> SUBSET Statements]
    BY <1>1, <1>7 DEF HInv, TypeOK
<1>9. TypeOK'
    BY <1>1, <1>2, <1>8 DEF HInv, TypeOK
<1>10. FilesFollow'
    BY <1>1 DEF HInv, FilesFollow
<1> QED BY <1>5, <1>6, <1>9, <1>10, HInvParts

\* A page subscribes, or hears of a change, and is about to query.
LEMMA WatcherAsks ==
    ASSUME HInv, NEW w \in Watchers, Subscribe(w) \/ HearChange(w)
    PROVE  HInv'
<1> DEFINE new == [Idle EXCEPT !.pc = "ask"]
<1>1. w \in Clients
    BY DEF Clients
<1>2. /\ new \in Call /\ new.pc = "ask" /\ new.kind = "read" /\ new.face = "member"
      /\ new.handle = NoHandle /\ new.staged = {}
    BY DEF Idle, Call
<1>3. calls' = [calls EXCEPT ![w] = new]
    BY DEF Subscribe, HearChange
<1>4. UNCHANGED <<pool, handles, file, content, views, writes, unlinked, deleting, settled>>
    BY DEF Subscribe, HearChange
<1> HIDE DEF new
<1>5. Between(new)
    BY <1>2 DEF Between
<1>6. Ready(w)
    BY DEF Subscribe, HearChange, HInv, WatchersRead
<1>7. handles' \in [Handles -> Handle] /\ LetsGo(w)
    BY <1>1, <1>4, <1>6, NothingToLetGo DEF Ready
<1>8. PoolStays
    BY <1>4, SamePool
<1>9. hub' = hub \/ hub' = HubOf
    BY DEF Subscribe, HearChange
<1>10. Holding'
    BY <1>1, <1>2, <1>3, <1>4, <1>5, <1>7, <1>8, <1>9, MovesOn
<1>11. hub' \in Nat
    BY <1>9, HubTyped
<1>12. PICK sub \in [hub: Nat, pending: 0..BufferSize] :
         /\ subs' = [subs EXCEPT ![w] = sub]
         /\ sub.hub # 0
         /\ sub.hub = subs[w].hub \/ sub.hub = hub'
  <2>1. CASE Subscribe(w)
    <3> DEFINE sub == [hub |-> hub', pending |-> 0]
    <3>1. sub \in [hub: Nat, pending: 0..BufferSize]
        BY <1>11, ParametersAssumption
    <3>2. hub' # 0 /\ subs' = [subs EXCEPT ![w] = sub]
        BY <2>1 DEF Subscribe, HubOf
    <3> QED BY <3>1, <3>2
  <2>2. CASE HearChange(w)
    <3> DEFINE sub == [subs[w] EXCEPT !.pending = @ - 1]
    <3>1. /\ subs[w].pending > 0
          /\ subs' = [subs EXCEPT ![w].pending = @ - 1]
          /\ subs[w] \in [hub: Nat, pending: 0..BufferSize]
        BY <2>2 DEF HearChange, HInv, TypeOK
    <3>2. sub \in [hub: Nat, pending: 0..BufferSize] /\ sub.hub = subs[w].hub
        BY <3>1, ParametersAssumption
    <3>3. subs' = [subs EXCEPT ![w] = sub]
        BY <3>1
    <3>4. subs[w].hub # 0
        BY <2>2, <3>1 DEF HearChange, HInv, WatchersRead
    <3> QED BY <3>2, <3>3, <3>4
  <2> QED BY <2>1, <2>2
<1>13. WatchersRead'
  <2>1. \A v \in Watchers : \/ subs'[v] = subs[v]
                            \/ v = w /\ subs'[v].hub \in {subs[v].hub, hub'} \ {0}
      BY <1>12 DEF HInv, TypeOK
  <2>2. subs'[w].hub # 0
      BY <1>12 DEF HInv, TypeOK
  <2> QED BY <1>1, <1>2, <1>3, <1>9, <2>1, <2>2, WatchersStay
<1>14. TypeOK'
    BY <1>1, <1>2, <1>3, <1>4, <1>11, <1>12 DEF HInv, TypeOK
<1>15. FilesFollow'
    BY <1>4 DEF HInv, FilesFollow
<1> QED BY <1>10, <1>13, <1>14, <1>15, HInvParts

\* A page goes away.
LEMMA UnsubscribeStep ==
    ASSUME HInv, NEW w \in Watchers, Unsubscribe(w)
    PROVE  HInv'
<1>1. /\ Ready(w)
      /\ subs' = [subs EXCEPT ![w] = [hub |-> 0, pending |-> 0]]
      /\ views' = [views EXCEPT ![w] = {}]
      /\ UNCHANGED <<pool, handles, file, content, hub, calls, writes, unlinked, deleting, settled>>
    BY DEF Unsubscribe
<1>2. [hub |-> 0, pending |-> 0] \in [hub: Nat, pending: 0..BufferSize]
    BY ParametersAssumption
<1>3. TypeOK'
    BY <1>1, <1>2 DEF HInv, TypeOK
<1>4. Holding'
    BY <1>1 DEF HInv, Holding, RequestsHoldHandles, PooledAreOpen, HandlesAreOnFiles,
                NoHandleLeaks, ConnectionsAreHeldByRunners, StagedInOrder
<1>5. WatchersRead'
  <2>1. \A v \in Watchers : subs'[v] = IF v = w THEN [hub |-> 0, pending |-> 0] ELSE subs[v]
      BY <1>1 DEF HInv, TypeOK
  <2> QED BY <1>1, <2>1 DEF HInv, WatchersRead, Ready
<1>6. FilesFollow'
    BY <1>1 DEF HInv, FilesFollow
<1> QED BY <1>3, <1>4, <1>5, <1>6, HInvParts

\* A request that opened a handle for nothing closes it and takes the pooled one.
LEMMA TakePooledStep ==
    ASSUME HInv, NEW c \in Clients, TakePooled(c)
    PROVE  HInv'
<1> DEFINE h == calls[c].handle
           m == handles[h].mode
           closed == [handles[h] EXCEPT !.state = "closed"]
           hs == [handles EXCEPT ![h] = closed]
           new == [calls[c] EXCEPT !.pc = "acquire", !.handle = pool[m].handle]
<1>1. /\ calls[c].pc = "pool" /\ pool[m].handle # NoHandle
      /\ handles' = Collected([handles EXCEPT ![h].state = "closed"], {c})
      /\ \E idle \in {FALSE, pool[m].idle} : pool' = [pool EXCEPT ![m].idle = idle]
      /\ calls' = [calls EXCEPT ![c].pc = "acquire", ![c].handle = pool[m].handle]
      /\ UNCHANGED <<file, content, hub, subs, views, writes, unlinked, deleting, settled>>
    BY DEF TakePooled
<1>2. /\ handles \in [Handles -> Handle] /\ calls \in [Clients -> Call] /\ pool \in [Modes -> Entry]
    BY DEF HInv, TypeOK
<1>3. h \in Handles /\ handles[h] \in Handle /\ calls[c] \in Call
    BY <1>1, <1>2 DEF HInv, RequestsHoldHandles
<1>4. m = Mode(calls[c].face) /\ m \in Modes /\ pool[m] \in Entry
    BY <1>1, <1>2, ModesOfFaces DEF HInv, RequestsHoldHandles
<1>5. calls[c].staged = {}
    BY <1>1 DEF HInv, StagedInOrder
<1>6. handles[h].holder = NoCaller /\ \A d \in Clients \ {c} : calls[d].handle # h
  <2>1. \A d \in Clients \ {c} : calls[d].handle # h
      BY <1>1 DEF HInv, RequestsHoldHandles
  <2>2. calls[c].pc # "run"
      BY <1>1
  <2>3. handles[h].holder \in Clients \cup {NoCaller}
      BY <1>3 DEF Handle
  <2> QED BY <1>3, <2>1, <2>2, <2>3 DEF HInv, ConnectionsAreHeldByRunners
<1>7. /\ new \in Call /\ new.pc = "acquire" /\ new.handle = pool[m].handle /\ new.staged = {}
      /\ new.face = calls[c].face /\ new.kind = calls[c].kind
    BY <1>3, <1>4, <1>5 DEF Call, Entry
<1>8. calls' = [calls EXCEPT ![c] = new]
    BY <1>1, <1>2
<1>9. /\ closed \in Handle /\ closed.state = "closed"
      /\ closed.mode = handles[h].mode /\ closed.inode = handles[h].inode
      /\ closed.hub = handles[h].hub /\ closed.raced = handles[h].raced
      /\ closed.holder = NoCaller
    BY <1>3, <1>6 DEF Handle
<1>10. hs \in [Handles -> Handle] /\ hs[h] = closed /\ \A g \in Handles \ {h} : hs[g] = handles[g]
    BY <1>2, <1>3, <1>9
<1>11. handles' = Collected(hs, {c})
    BY <1>1, <1>2
<1> HIDE DEF hs, closed, new
<1>12. handles' \in [Handles -> Handle]
    BY <1>10, <1>11, NothingTyped DEF Collected
<1>13. \A g \in Handles :
        \/ handles'[g] = hs[g]
        \/ /\ handles'[g] = Unused
           /\ hs[g].state = "closed" /\ hs[g].holder = NoCaller
           /\ \A d \in Clients \ {c} : calls[d].handle # g
    BY <1>10, <1>11, CollectedOnly
<1>14. \A g \in Handles : handles[g].holder # c
  <2>1. calls[c].pc # "run"
      BY <1>1
  <2> QED BY <2>1, ParametersAssumption DEF HInv, ConnectionsAreHeldByRunners, Clients
<1>15. LetsGo(c)
  <2> SUFFICES ASSUME NEW g \in Handles
               PROVE  \/ /\ handles'[g].mode = handles[g].mode
                         /\ handles'[g].inode = handles[g].inode
                         /\ handles'[g].hub = handles[g].hub
                         /\ handles'[g].raced = handles[g].raced
                         /\ handles'[g].state = IF calls[c].pc = "pool" /\ calls[c].handle = g
                                                THEN "closed" ELSE handles[g].state
                         /\ handles'[g].holder = IF handles[g].holder = c THEN NoCaller ELSE handles[g].holder
                      \/ /\ handles'[g] = Unused
                         /\ \/ handles[g].state = "closed"
                            \/ calls[c].pc = "pool" /\ calls[c].handle = g
                         /\ handles[g].holder \in {c, NoCaller}
                         /\ \A d \in Clients \ {c} : calls[d].handle # g
      BY DEF LetsGo
  <2>1. CASE g = h
      BY <1>1, <1>6, <1>9, <1>10, <1>13, <1>14, <2>1
  <2>2. CASE g # h
      BY <1>10, <1>13, <1>14, <2>2
  <2> QED BY <2>1, <2>2
<1>16. PoolStays
  <2>1. PICK idle \in {FALSE, pool[m].idle} : pool' = [pool EXCEPT ![m].idle = idle]
      BY <1>1
  <2> DEFINE entry == [pool[m] EXCEPT !.idle = idle]
  <2>2. entry \in Entry /\ entry.handle = pool[m].handle /\ pool' = [pool EXCEPT ![m] = entry]
      BY <1>2, <1>4, <2>1 DEF Entry
  <2> HIDE DEF entry
  <2> QED BY <1>2, <2>2 DEF PoolStays
<1>17. Between(new)
    BY <1>1, <1>4, <1>7 DEF Between
<1>18. Holding'
    BY <1>1, <1>7, <1>8, <1>12, <1>15, <1>16, <1>17, MovesOn
<1>19. c \in Watchers => /\ new.kind = "read" /\ new.face = "member"
                         /\ subs[c].hub # 0
    BY <1>1, <1>7 DEF HInv, WatchersRead, Ready
<1>20. WatchersRead'
    BY <1>1, <1>7, <1>8, <1>19, WatchersStay
<1>21. TypeOK'
    BY <1>1, <1>7, <1>8, <1>12, <1>16 DEF HInv, TypeOK, PoolStays
<1>22. FilesFollow'
    BY <1>1 DEF HInv, FilesFollow
<1> QED BY <1>18, <1>20, <1>21, <1>22, HInvParts

\* A handle nobody refers to is opened on the file that has the name, or on a
\* new one.
LEMMA OpenHandleStep ==
    ASSUME HInv, NEW c \in Clients, OpenHandle(c)
    PROVE  HInv'
<1> DEFINE h == CHOOSE g \in Handles : ~Referenced(g)
           i == IF file = NoFile THEN unlinked ELSE file
           rec == [state |-> "open", mode |-> Mode(calls[c].face), inode |-> i, hub |-> hub',
                   holder |-> NoCaller, raced |-> deleting]
           new == [calls[c] EXCEPT !.pc = "pool", !.handle = h]
<1>1. /\ calls[c].pc = "open"
      /\ \E g \in Handles : ~Referenced(g)
      /\ file' = i
      /\ hub' = HubOf
      /\ handles' = [handles EXCEPT ![h] = rec]
      /\ calls' = [calls EXCEPT ![c].pc = "pool", ![c].handle = h]
      /\ UNCHANGED <<pool, content, subs, views, writes, unlinked, deleting, settled>>
    BY DEF OpenHandle
<1>2. /\ handles \in [Handles -> Handle] /\ calls \in [Clients -> Call] /\ calls[c] \in Call
      /\ unlinked \in 0..MaxDeletions /\ deleting \in BOOLEAN
    BY DEF HInv, TypeOK
<1>3. h \in Handles /\ ~Referenced(h)
    BY <1>1
<1>4. /\ i = unlinked /\ i \in Inodes /\ i \in 0..unlinked /\ i # NoFile /\ unlinked \in Nat
    BY <1>2, ParametersAssumption DEF HInv, FilesFollow, Inodes
<1>5. hub' \in Nat /\ hub' # 0 /\ (hub # 0 => hub' = hub)
    BY <1>1, HubTyped DEF HubOf
<1>6. calls[c].staged = {}
    BY <1>1 DEF HInv, StagedInOrder
<1>7. /\ new \in Call /\ new.pc = "pool" /\ new.handle = h /\ new.staged = {}
      /\ new.face = calls[c].face /\ new.kind = calls[c].kind
  <2> HIDE DEF h
  <2> QED BY <1>2, <1>3, <1>6 DEF Call
<1>8. calls' = [calls EXCEPT ![c] = new]
  <2> HIDE DEF h
  <2> QED BY <1>1, <1>2
<1>9. /\ rec \in Handle /\ rec.state = "open" /\ rec.mode = Mode(calls[c].face) /\ rec.inode = i
      /\ rec.hub = hub' /\ rec.holder = NoCaller /\ rec.raced = deleting
  <2>1. Mode(calls[c].face) \in Modes
      BY ModesOfFaces
  <2> HIDE DEF i
  <2> QED BY <1>2, <1>4, <1>5, <2>1 DEF Handle
<1>10. file' = i /\ handles' = [handles EXCEPT ![h] = rec]
    BY <1>1
<1> HIDE DEF h, i, rec, new
<1>11. /\ handles' \in [Handles -> Handle] /\ handles'[h] = rec
       /\ \A g \in Handles \ {h} : handles'[g] = handles[g]
       /\ calls' \in [Clients -> Call] /\ calls'[c] = new
       /\ \A d \in Clients \ {c} : calls'[d] = calls[d]
    BY <1>2, <1>3, <1>7, <1>8, <1>9, <1>10
<1>12. /\ \A m \in Modes : pool[m].handle # h
       /\ \A d \in Clients : calls[d].handle # h
       /\ pool' = pool
    BY <1>1, <1>3 DEF Referenced
<1>13. TypeOK'
    BY <1>1, <1>4, <1>5, <1>10, <1>11 DEF HInv, TypeOK
<1>14. RequestsHoldHandles'
  <2>1. ASSUME NEW d \in Clients \ {c}
        PROVE  LET g == calls[d].handle IN
               /\ calls[d].pc \in {"idle", "ask", "open"} => g = NoHandle
               /\ calls[d].pc \in {"pool", "acquire", "run"} =>
                    /\ g \in Handles
                    /\ handles'[g].state # "unused"
                    /\ handles'[g].mode = Mode(calls[d].face)
               /\ calls[d].pc = "pool" =>
                    /\ handles'[g].state = "open"
                    /\ \A m \in Modes : pool'[m].handle # g
                    /\ \A e \in Clients \ {d} : calls'[e].handle # g
               /\ calls[d].pc = "run" => handles'[g].holder = d
      BY <1>7, <1>11, <1>12 DEF HInv, RequestsHoldHandles
  <2>2. \A d \in Clients \ {c} : calls'[d].handle # h
      BY <1>11, <1>12
  <2> QED BY <1>3, <1>7, <1>9, <1>11, <1>12, <2>1, <2>2 DEF RequestsHoldHandles
<1>15. PooledAreOpen'
    BY <1>11, <1>12 DEF HInv, PooledAreOpen, TypeOK, Entry
<1>16. HandlesAreOnFiles'
  <2>1. ASSUME NEW g \in Handles \ {h}
        PROVE  /\ handles[g].state # "unused" =>
                    /\ handles[g].inode \in 0..unlinked
                    /\ handles[g].hub = hub'
               /\ handles[g].state = "open" =>
                    /\ handles[g].inode = file' \/ handles[g].raced
                    /\ deleting => handles[g].raced
                    /\ settled => handles[g].inode = file'
    <3>1. handles[g].state # "unused" => /\ handles[g].inode \in 0..unlinked
                                         /\ handles[g].inode # NoFile
                                         /\ handles[g].hub = hub'
        BY <1>4, <1>5, ParametersAssumption DEF HInv, HandlesAreOnFiles
    <3>2. CASE file = NoFile
        BY <3>1, <3>2 DEF HInv, HandlesAreOnFiles
    <3>3. CASE file # NoFile
      <4>1. file' = file
          BY <1>10, <3>3 DEF i
      <4> QED BY <3>1, <4>1 DEF HInv, HandlesAreOnFiles
    <3> QED BY <3>2, <3>3
  <2>2. file' # NoFile /\ unlinked' = unlinked /\ deleting' = deleting /\ settled' = settled
      BY <1>1, <1>4
  <2> QED BY <1>4, <1>5, <1>9, <1>10, <1>11, <2>1, <2>2 DEF HandlesAreOnFiles
<1>17. NoHandleLeaks'
  <2>1. calls[c].pc # "pool"
      BY <1>1
  <2> QED BY <1>7, <1>11, <1>12, <2>1 DEF HInv, NoHandleLeaks
<1>18. ConnectionsAreHeldByRunners'
  <2> SUFFICES ASSUME NEW g \in Handles, handles'[g].holder # NoCaller
               PROVE  /\ calls'[handles'[g].holder].pc = "run"
                      /\ calls'[handles'[g].holder].handle = g
      BY DEF ConnectionsAreHeldByRunners
  <2>1. g # h /\ handles'[g] = handles[g]
      BY <1>9, <1>11
  <2>2. /\ handles[g].holder \in Clients
        /\ calls[handles[g].holder].pc = "run"
        /\ calls[handles[g].holder].handle = g
      BY <1>2, <2>1 DEF HInv, ConnectionsAreHeldByRunners, Handle
  <2>3. handles[g].holder # c
      BY <1>1, <2>2
  <2> QED BY <1>11, <2>1, <2>2, <2>3
<1>19. StagedInOrder'
  <2>1. ASSUME NEW d \in Clients
        PROVE  /\ calls'[d].staged # {} =>
                    /\ calls'[d].pc = "run"
                    /\ handles'[calls'[d].handle].mode = "rw"
               /\ \E k \in Nat : calls'[d].staged \in {{}, {<<k, 1>>}, {<<k, 1>>, <<k, 2>>}}
    <3>1. CASE d = c
        BY <1>7, <1>11, <3>1
    <3>2. CASE d # c
      <4>1. calls'[d] = calls[d] /\ calls[d].handle # h
          BY <1>11, <1>12, <3>2
      <4>2. \E k \in Nat : calls[d].staged \in {{}, {<<k, 1>>}, {<<k, 1>>, <<k, 2>>}}
          BY DEF HInv, StagedInOrder
      <4>3. calls[d].staged # {} =>
              /\ calls[d].pc = "run"
              /\ handles[calls[d].handle].mode = "rw"
              /\ calls[d].handle \in Handles
          BY DEF HInv, StagedInOrder, RequestsHoldHandles
      <4> QED BY <1>11, <4>1, <4>2, <4>3
    <3> QED BY <3>1, <3>2
  <2> QED BY <2>1 DEF StagedInOrder
<1>20. WatchersRead'
  <2>1. c \in Watchers => new.kind = "read" /\ new.face = "member" /\ subs[c].hub # 0
      BY <1>1, <1>7 DEF HInv, WatchersRead, Ready
  <2> QED BY <1>1, <1>7, <1>8, <2>1, WatchersStay
<1>21. FilesFollow'
    BY <1>1, <1>4, <1>10 DEF HInv, FilesFollow
<1> QED BY <1>13, <1>14, <1>15, <1>16, <1>17, <1>18, <1>19, <1>20, <1>21, HInvParts DEF Holding

\* The handle a request opened goes into the pool.
LEMMA PoolHandleStep ==
    ASSUME HInv, NEW c \in Clients, PoolHandle(c)
    PROVE  HInv'
<1> DEFINE h == calls[c].handle
           m == handles[h].mode
           new == [calls[c] EXCEPT !.pc = "acquire"]
<1>1. /\ calls[c].pc = "pool" /\ pool[m].handle = NoHandle
      /\ pool' = [pool EXCEPT ![m] = [handle |-> h, idle |-> FALSE]]
      /\ calls' = [calls EXCEPT ![c] = new]
      /\ UNCHANGED <<handles, file, content, hub, subs, views, writes, unlinked, deleting, settled>>
    BY DEF PoolHandle
<1>2. /\ calls \in [Clients -> Call] /\ calls[c] \in Call /\ pool \in [Modes -> Entry]
      /\ handles \in [Handles -> Handle]
    BY DEF HInv, TypeOK
<1>3. calls[c].pc # "run" /\ calls[c].pc = "pool"
    BY <1>1
<1>4. /\ h \in Handles /\ h # NoHandle /\ m \in Modes /\ handles[h].state = "open"
      /\ m = Mode(calls[c].face)
      /\ \A n \in Modes : pool[n].handle # h
      /\ \A d \in Clients \ {c} : calls[d].handle # h
    BY <1>3, ParametersAssumption, ModesOfFaces DEF HInv, RequestsHoldHandles
<1>5. calls[c].staged = {}
    BY <1>3 DEF HInv, StagedInOrder
<1>6. /\ new \in Call /\ new.pc = "acquire" /\ new.handle = h /\ new.staged = {}
      /\ new.face = calls[c].face /\ new.kind = calls[c].kind
    BY <1>2, <1>5 DEF Call
<1>7. calls' = [calls EXCEPT ![c] = new]
    BY <1>1
<1>8. /\ pool' \in [Modes -> Entry] /\ pool'[m].handle = h
      /\ \A n \in Modes \ {m} : pool'[n] = pool[n]
  <2> DEFINE entry == [handle |-> h, idle |-> FALSE]
  <2>1. entry \in Entry /\ entry.handle = h
      BY <1>4 DEF Entry
  <2>2. pool' = [pool EXCEPT ![m] = entry]
      BY <1>1
  <2> HIDE DEF entry, m
  <2> QED BY <1>2, <1>4, <2>1, <2>2
<1>9. pool[m].handle = NoHandle
    BY <1>1
<1>10. UNCHANGED <<handles, file, content, hub, subs, views, writes, unlinked, deleting, settled>>
    BY <1>1
<1> HIDE DEF h, m, new
<1>11. /\ calls' \in [Clients -> Call] /\ calls'[c] = new
       /\ \A d \in Clients \ {c} : calls'[d] = calls[d]
    BY <1>2, <1>6, <1>7
<1>12. TypeOK'
    BY <1>8, <1>10, <1>11 DEF HInv, TypeOK
<1>13. RequestsHoldHandles'
  <2>1. ASSUME NEW d \in Clients \ {c}
        PROVE  LET g == calls[d].handle IN
               /\ calls[d].pc \in {"idle", "ask", "open"} => g = NoHandle
               /\ calls[d].pc \in {"pool", "acquire", "run"} =>
                    /\ g \in Handles
                    /\ handles[g].state # "unused"
                    /\ handles[g].mode = Mode(calls[d].face)
               /\ calls[d].pc = "pool" =>
                    /\ handles[g].state = "open"
                    /\ \A n \in Modes : pool'[n].handle # g
                    /\ \A e \in Clients \ {d} : calls'[e].handle # g
               /\ calls[d].pc = "run" => handles[g].holder = d
    <3>1. /\ calls[d].handle # h
          /\ calls[d].pc = "pool" =>
               /\ \A n \in Modes : pool[n].handle # calls[d].handle
               /\ \A e \in Clients \ {d} : calls[e].handle # calls[d].handle
        BY <1>4 DEF HInv, RequestsHoldHandles
    <3>2. calls[d].pc = "pool" =>
            /\ \A n \in Modes : pool'[n].handle # calls[d].handle
            /\ \A e \in Clients \ {d} : calls'[e].handle # calls[d].handle
        BY <1>6, <1>8, <1>11, <3>1
    <3> QED BY <3>2 DEF HInv, RequestsHoldHandles
  <2> QED BY <1>4, <1>6, <1>10, <1>11, <2>1 DEF RequestsHoldHandles, m
<1>14. PooledAreOpen'
    BY <1>4, <1>8, <1>10 DEF HInv, PooledAreOpen, m
<1>15. HandlesAreOnFiles'
    BY <1>10 DEF HInv, HandlesAreOnFiles
<1>16. NoHandleLeaks'
  <2> SUFFICES ASSUME NEW g \in Handles, handles[g].state = "open"
               PROVE  \/ \E n \in Modes : pool'[n].handle = g
                      \/ \E d \in Clients : calls'[d].pc = "pool" /\ calls'[d].handle = g
      BY <1>10 DEF NoHandleLeaks
  <2>1. CASE g = h
      BY <1>4, <1>8, <2>1
  <2>2. CASE g # h
    <3>1. g # NoHandle
        BY ParametersAssumption
    <3>2. \/ \E n \in Modes : pool[n].handle = g
          \/ \E d \in Clients \ {c} : calls[d].pc = "pool" /\ calls[d].handle = g
        BY <2>2 DEF HInv, NoHandleLeaks, h
    <3> QED BY <1>8, <1>9, <1>11, <3>1, <3>2
  <2> QED BY <2>1, <2>2
<1>17. ConnectionsAreHeldByRunners'
  <2> SUFFICES ASSUME NEW g \in Handles, handles[g].holder # NoCaller
               PROVE  /\ calls'[handles[g].holder].pc = "run"
                      /\ calls'[handles[g].holder].handle = g
      BY <1>10 DEF ConnectionsAreHeldByRunners
  <2>1. /\ handles[g].holder \in Clients
        /\ calls[handles[g].holder].pc = "run"
        /\ calls[handles[g].holder].handle = g
      BY <1>2 DEF HInv, ConnectionsAreHeldByRunners, Handle
  <2> QED BY <1>3, <1>11, <2>1
<1>18. StagedInOrder'
  <2>1. \A d \in Clients :
          /\ calls'[d].staged = calls[d].staged
          /\ calls'[d].handle = calls[d].handle
          /\ calls[d].staged # {} => calls'[d].pc = "run"
      BY <1>5, <1>6, <1>11 DEF HInv, StagedInOrder, h
  <2>2. ASSUME NEW d \in Clients
        PROVE  /\ calls'[d].staged # {} =>
                    /\ calls'[d].pc = "run"
                    /\ handles[calls'[d].handle].mode = "rw"
               /\ \E k \in Nat : calls'[d].staged \in {{}, {<<k, 1>>}, {<<k, 1>>, <<k, 2>>}}
    <3>1. PICK k \in Nat : calls[d].staged \in {{}, {<<k, 1>>}, {<<k, 1>>, <<k, 2>>}}
        BY DEF HInv, StagedInOrder
    <3>2. calls[d].staged # {} => handles[calls[d].handle].mode = "rw"
        BY DEF HInv, StagedInOrder
    <3>3. calls'[d].staged \in {{}, {<<k, 1>>}, {<<k, 1>>, <<k, 2>>}}
        BY <2>1, <3>1
    <3>4. calls'[d].staged # {} => calls'[d].pc = "run" /\ handles[calls'[d].handle].mode = "rw"
        BY <2>1, <3>2
    <3> QED BY <3>3, <3>4
  <2> QED BY <1>10, <2>2 DEF StagedInOrder
<1>19. WatchersRead'
  <2>1. c \in Watchers => new.kind = "read" /\ new.face = "member" /\ subs[c].hub # 0
      BY <1>3, <1>6 DEF HInv, WatchersRead, Ready
  <2> QED BY <1>6, <1>7, <1>10, <2>1, WatchersStay
<1>20. FilesFollow'
    BY <1>10 DEF HInv, FilesFollow
<1> QED BY <1>12, <1>13, <1>14, <1>15, <1>16, <1>17, <1>18, <1>19, <1>20, HInvParts DEF Holding

\* A writer's turn has come.
LEMMA AcquireStep ==
    ASSUME HInv, NEW c \in Clients, Acquire(c)
    PROVE  HInv'
<1> DEFINE h == calls[c].handle
           rec == [handles[h] EXCEPT !.holder = c]
           new == [calls[c] EXCEPT !.pc = "run"]
<1>1. /\ calls[c].pc = "acquire" /\ handles[h].state = "open" /\ handles[h].holder = NoCaller
      /\ calls[c].kind = "write"
      /\ UNCHANGED <<pool, file, content, hub, subs, views, writes, unlinked, deleting, settled>>
    BY DEF Acquire, Available
<1>2. /\ calls \in [Clients -> Call] /\ calls[c] \in Call /\ handles \in [Handles -> Handle]
    BY DEF HInv, TypeOK
<1>3. h \in Handles /\ handles[h].mode = Mode(calls[c].face)
    BY <1>1 DEF HInv, RequestsHoldHandles
<1>4. calls[c].staged = {}
    BY <1>1 DEF HInv, StagedInOrder
<1>5. /\ new \in Call /\ new.pc = "run" /\ new.handle = h /\ new.staged = {}
      /\ new.face = calls[c].face /\ new.kind = calls[c].kind
      /\ calls' = [calls EXCEPT ![c] = new]
    BY <1>2, <1>4 DEF Call, Acquire
<1>6. /\ rec \in Handle /\ rec.holder = c /\ rec.state = handles[h].state
      /\ rec.mode = handles[h].mode /\ rec.inode = handles[h].inode
      /\ rec.hub = handles[h].hub /\ rec.raced = handles[h].raced
      /\ handles' = [handles EXCEPT ![h] = rec]
    BY <1>2, <1>3 DEF Handle, Acquire
<1> HIDE DEF new, rec
<1>7. /\ calls' \in [Clients -> Call] /\ calls'[c] = new
      /\ \A d \in Clients \ {c} : calls'[d] = calls[d]
      /\ \A d \in Clients : /\ calls'[d].handle = calls[d].handle
                            /\ calls'[d].face = calls[d].face
                            /\ calls'[d].staged = calls[d].staged
    BY <1>2, <1>4, <1>5
<1>8. /\ handles' \in [Handles -> Handle] /\ handles'[h] = rec
      /\ \A g \in Handles \ {h} : handles'[g] = handles[g]
      /\ \A g \in Handles : /\ handles'[g].state = handles[g].state
                            /\ handles'[g].mode = handles[g].mode
                            /\ handles'[g].inode = handles[g].inode
                            /\ handles'[g].hub = handles[g].hub
                            /\ handles'[g].raced = handles[g].raced
    BY <1>2, <1>3, <1>6
<1>9. TypeOK'
    BY <1>1, <1>7, <1>8 DEF HInv, TypeOK
<1>10. RequestsHoldHandles'
  <2>1. ASSUME NEW d \in Clients
        PROVE  LET g == calls[d].handle IN
               /\ calls'[d].pc \in {"idle", "ask", "open"} => g = NoHandle
               /\ calls'[d].pc \in {"pool", "acquire", "run"} =>
                    /\ g \in Handles
                    /\ handles[g].state # "unused"
                    /\ handles[g].mode = Mode(calls[d].face)
               /\ calls'[d].pc = "pool" =>
                    /\ handles[g].state = "open"
                    /\ \A n \in Modes : pool[n].handle # g
                    /\ \A e \in Clients \ {d} : calls[e].handle # g
               /\ calls'[d].pc = "run" => handles'[g].holder = d
    <3>1. CASE d = c
        BY <1>1, <1>3, <1>5, <1>6, <1>7, <1>8, <3>1
    <3>2. CASE d # c
      <4>1. calls'[d] = calls[d]
          BY <1>7, <3>2
      <4>2. calls[d].pc = "run" => calls[d].handle # h /\ calls[d].handle \in Handles
                                   /\ handles[calls[d].handle].holder = d
          BY <1>1, ParametersAssumption DEF HInv, RequestsHoldHandles, Clients
      <4>3. calls[d].pc = "run" => handles'[calls[d].handle].holder = d
          BY <1>8, <4>2
      <4> QED BY <4>1, <4>3 DEF HInv, RequestsHoldHandles
    <3> QED BY <3>1, <3>2
  <2> HIDE DEF h
  <2> QED BY <1>1, <1>7, <1>8, <2>1 DEF RequestsHoldHandles
<1>11. PooledAreOpen'
    BY <1>1, <1>8 DEF HInv, PooledAreOpen, TypeOK, Entry
<1>12. HandlesAreOnFiles'
    BY <1>1, <1>8 DEF HInv, HandlesAreOnFiles
<1>13. NoHandleLeaks'
  <2>1. \A d \in Clients : calls[d].pc = "pool" => calls'[d] = calls[d]
      BY <1>1, <1>7
  <2> QED BY <1>1, <1>8, <2>1 DEF HInv, NoHandleLeaks
<1>14. ConnectionsAreHeldByRunners'
  <2> SUFFICES ASSUME NEW g \in Handles, handles'[g].holder # NoCaller
               PROVE  /\ calls'[handles'[g].holder].pc = "run"
                      /\ calls'[handles'[g].holder].handle = g
      BY DEF ConnectionsAreHeldByRunners
  <2>1. CASE g = h
      BY <1>5, <1>6, <1>7, <1>8, <2>1
  <2>2. CASE g # h
    <3>1. handles'[g] = handles[g]
        BY <1>8, <2>2
    <3>2. /\ handles[g].holder \in Clients
          /\ calls[handles[g].holder].pc = "run"
          /\ calls[handles[g].holder].handle = g
        BY <1>2, <3>1 DEF HInv, ConnectionsAreHeldByRunners, Handle
    <3>3. handles[g].holder # c
        BY <1>1, <3>2
    <3> QED BY <1>7, <3>1, <3>2, <3>3
  <2> QED BY <2>1, <2>2
<1>15. StagedInOrder'
  <2>1. ASSUME NEW d \in Clients, calls[d].staged # {}
        PROVE  calls'[d].pc = "run" /\ handles'[calls[d].handle].mode = "rw"
    <3>1. d # c /\ calls'[d] = calls[d]
        BY <1>4, <1>7, <2>1
    <3>2. calls[d].pc = "run" /\ handles[calls[d].handle].mode = "rw" /\ calls[d].handle \in Handles
        BY <2>1 DEF HInv, StagedInOrder, RequestsHoldHandles
    <3> QED BY <1>8, <3>1, <3>2
  <2> QED BY <1>7, <2>1 DEF HInv, StagedInOrder
<1>16. WatchersRead'
  <2>1. c \in Watchers => new.kind = "read" /\ new.face = "member" /\ subs[c].hub # 0
      BY <1>1, <1>5 DEF HInv, WatchersRead, Ready
  <2> QED BY <1>1, <1>5, <2>1, WatchersStay
<1>17. FilesFollow'
    BY <1>1 DEF HInv, FilesFollow
<1> QED BY <1>9, <1>10, <1>11, <1>12, <1>13, <1>14, <1>15, <1>16, <1>17, HInvParts DEF Holding

\* What a batch may stage next: its first statement, or the second of the same.
LEMMA NextStaged ==
    ASSUME HInv, NEW c \in Clients, WriteRow(c)
    PROVE  \E new \in Call, k \in Nat :
             /\ calls' = [calls EXCEPT ![c] = new]
             /\ new.pc = "run" /\ new.handle = calls[c].handle
             /\ new.kind = calls[c].kind /\ new.face = calls[c].face
             /\ new.staged \in {{<<k, 1>>}, {<<k, 1>>, <<k, 2>>}}
<1> DEFINE staged == calls[c].staged
           n == Cardinality(staged) + 1
           s == <<IF n = 1 THEN writes + 1 ELSE (CHOOSE t \in staged : TRUE)[1], n>>
           new == [calls[c] EXCEPT !.staged = staged \cup {s}]
<1>1. /\ calls[c].pc = "run"
      /\ n = 1 \/ n = 2
      /\ n = 1 => writes < MaxWrites
      /\ calls' = [calls EXCEPT ![c].staged = @ \cup
             {<<IF n = 1 THEN writes + 1 ELSE (CHOOSE t \in @ : TRUE)[1], n>>}]
    BY DEF WriteRow
<1>2. calls \in [Clients -> Call] /\ calls[c] \in Call /\ staged \subseteq Statements
      /\ writes \in 0..MaxWrites
    BY DEF HInv, TypeOK, Call
<1>3. calls' = [calls EXCEPT ![c] = new]
    BY <1>1, <1>2
<1>4. PICK k \in Nat : staged \in {{}, {<<k, 1>>}, {<<k, 1>>, <<k, 2>>}}
    BY DEF HInv, StagedInOrder
<1>5. /\ Cardinality({}) = 0
      /\ Cardinality({<<k, 1>>}) = 1
      /\ Cardinality({<<k, 1>>, <<k, 2>>}) = 2
  <2>1. IsFiniteSet({<<k, 1>>}) /\ Cardinality({<<k, 1>>}) = 1
      BY FS_Singleton
  <2>2. {<<k, 1>>, <<k, 2>>} = {<<k, 1>>} \cup {<<k, 2>>} /\ <<k, 2>> \notin {<<k, 1>>}
      OBVIOUS
  <2>3. Cardinality({<<k, 1>>} \cup {<<k, 2>>}) = 1 + 1
      BY <2>1, <2>2, FS_AddElement
  <2> QED BY <2>1, <2>2, <2>3, FS_EmptySet
<1>6. \E j \in Nat : /\ staged \cup {s} \in {{<<j, 1>>}, {<<j, 1>>, <<j, 2>>}}
                    /\ staged \cup {s} \subseteq Statements
  <2>1. CASE staged = {}
    <3>1. n = 1 /\ s = <<writes + 1, 1>>
        BY <1>5, <2>1
    <3>2. writes + 1 \in 1..MaxWrites /\ writes + 1 \in Nat
        BY <1>1, <1>2, <3>1, ParametersAssumption
    <3> QED BY <2>1, <3>1, <3>2 DEF Statements
  <2>2. CASE staged = {<<k, 1>>}
    <3>1. n = 2 /\ s = <<k, 2>>
        BY <1>5, <2>2
    <3>2. k \in 1..MaxWrites
        BY <1>2, <2>2 DEF Statements
    <3>3. staged \cup {s} = {<<k, 1>>, <<k, 2>>}
        BY <2>2, <3>1
    <3> HIDE DEF s, staged
    <3>4. {<<k, 1>>, <<k, 2>>} \subseteq Statements
        BY <3>2 DEF Statements
    <3> QED BY <3>3, <3>4
  <2>3. staged # {<<k, 1>>, <<k, 2>>}
    <3>1. Cardinality(staged) + 1 # 3
        BY <1>1
    <3> HIDE DEF staged
    <3> QED BY <1>5, <3>1
  <2> QED BY <1>4, <2>1, <2>2, <2>3
<1>7. PICK j \in Nat : /\ staged \cup {s} \in {{<<j, 1>>}, {<<j, 1>>, <<j, 2>>}}
                     /\ staged \cup {s} \subseteq Statements
    BY <1>6
<1>8. /\ new \in Call /\ new.pc = "run" /\ new.handle = calls[c].handle
      /\ new.kind = calls[c].kind /\ new.face = calls[c].face
      /\ new.staged = staged \cup {s}
  <2> HIDE DEF s, staged
  <2> QED BY <1>1, <1>2, <1>7 DEF Call
<1> HIDE DEF new, s
<1> QED BY <1>3, <1>7, <1>8

\* A row is written, and every watcher of the hub has an event.
LEMMA WriteRowStep ==
    ASSUME HInv, NEW c \in Clients, WriteRow(c)
    PROVE  HInv'
<1> DEFINE h == calls[c].handle
<1>1. /\ calls[c].pc = "run" /\ calls[c].kind = "write" /\ handles[h].mode = "rw"
      /\ subs' = Heard(h)
      /\ UNCHANGED <<pool, handles, file, content, hub, views, unlinked, deleting, settled>>
    BY DEF WriteRow
<1>2. calls \in [Clients -> Call]
    BY DEF HInv, TypeOK
<1>3. PICK new \in Call, k \in Nat :
         /\ calls' = [calls EXCEPT ![c] = new]
         /\ new.pc = "run" /\ new.handle = calls[c].handle
         /\ new.kind = calls[c].kind /\ new.face = calls[c].face
         /\ new.staged \in {{<<k, 1>>}, {<<k, 1>>, <<k, 2>>}}
    BY NextStaged
<1>4. /\ calls' \in [Clients -> Call] /\ calls'[c] = new
      /\ \A d \in Clients \ {c} : calls'[d] = calls[d]
      /\ \A d \in Clients : /\ calls'[d].handle = calls[d].handle
                            /\ calls'[d].face = calls[d].face
                            /\ calls'[d].pc = calls[d].pc
                            /\ calls'[d].kind = calls[d].kind
    BY <1>1, <1>2, <1>3
<1>5. /\ subs' \in [Watchers -> [hub: Nat, pending: 0..BufferSize]]
      /\ \A w \in Watchers : subs'[w].hub = subs[w].hub
      /\ \A w \in Watchers : subs[w].hub = 0 => subs'[w] = subs[w]
  <2>1. subs \in [Watchers -> [hub: Nat, pending: 0..BufferSize]]
      BY DEF HInv, TypeOK
  <2>2. \A w \in Watchers :
          /\ [subs[w] EXCEPT !.pending = IF @ < BufferSize THEN @ + 1 ELSE @]
                \in [hub: Nat, pending: 0..BufferSize]
          /\ [subs[w] EXCEPT !.pending = IF @ < BufferSize THEN @ + 1 ELSE @].hub = subs[w].hub
      BY <2>1, ParametersAssumption
  <2> QED BY <1>1, <2>1, <2>2 DEF Heard
<1>6. writes' \in 0..MaxWrites
    BY ParametersAssumption DEF WriteRow, HInv, TypeOK
<1>7. TypeOK'
    BY <1>1, <1>4, <1>5, <1>6 DEF HInv, TypeOK
<1>8. RequestsHoldHandles'
    BY <1>1, <1>4 DEF HInv, RequestsHoldHandles
<1>9. PooledAreOpen' /\ HandlesAreOnFiles' /\ FilesFollow'
    BY <1>1 DEF HInv, PooledAreOpen, HandlesAreOnFiles, FilesFollow
<1>10. NoHandleLeaks' /\ ConnectionsAreHeldByRunners'
  <2>1. \A g \in Handles : handles[g].holder \in Clients \cup {NoCaller}
      BY DEF HInv, TypeOK, Handle
  <2> QED BY <1>1, <1>4, <2>1 DEF HInv, NoHandleLeaks, ConnectionsAreHeldByRunners
<1>11. StagedInOrder'
  <2>1. ASSUME NEW d \in Clients
        PROVE  /\ calls'[d].staged # {} =>
                    /\ calls'[d].pc = "run"
                    /\ handles[calls'[d].handle].mode = "rw"
               /\ \E j \in Nat : calls'[d].staged \in {{}, {<<j, 1>>}, {<<j, 1>>, <<j, 2>>}}
    <3>1. CASE d = c
        BY <1>1, <1>3, <1>4, <3>1
    <3>2. CASE d # c
        BY <1>4, <3>2 DEF HInv, StagedInOrder
    <3> QED BY <3>1, <3>2
  <2> QED BY <1>1, <2>1 DEF StagedInOrder
<1>12. WatchersRead'
    BY <1>1, <1>4, <1>5 DEF HInv, WatchersRead, Ready, Clients
<1> QED BY <1>7, <1>8, <1>9, <1>10, <1>11, <1>12, HInvParts DEF Holding

-----------------------------------------------------------------------------
(* The sweep, deletions and restarts                                       *)

\* Handles of some modes are dropped from the pool and closed.
ClosesPooled(ms) ==
    /\ pool' = [m \in Modes |-> IF m \in ms THEN NoEntry ELSE pool[m]]
    /\ handles' \in [Handles -> Handle]
    /\ \A h \in Handles : LET closed == \E m \in ms : pool[m].handle = h IN
        \/ /\ handles'[h].mode = handles[h].mode
           /\ handles'[h].inode = handles[h].inode
           /\ handles'[h].hub = handles[h].hub
           /\ handles'[h].holder = handles[h].holder
           /\ handles'[h].state = IF closed THEN "closed" ELSE handles[h].state
        \/ /\ handles'[h] = Unused
           /\ closed \/ handles[h].state = "closed"
           /\ handles[h].holder = NoCaller
           /\ \A d \in Clients : calls[d].handle # h

\* Closing and collecting, as the sweep and a deletion do it.
LEMMA ClosesCollected ==
    ASSUME HInv, NEW ms \in SUBSET Modes, NEW hs \in [Handles -> Handle],
           \A h \in Handles :
              /\ hs[h].mode = handles[h].mode
              /\ hs[h].inode = handles[h].inode
              /\ hs[h].hub = handles[h].hub
              /\ hs[h].holder = handles[h].holder
              /\ hs[h].state = IF \E m \in ms : pool[m].handle = h THEN "closed" ELSE handles[h].state,
           handles' = Collected(hs, {}),
           pool' = [m \in Modes |-> IF m \in ms THEN NoEntry ELSE pool[m]]
    PROVE  /\ ClosesPooled(ms)
           /\ \A h \in Handles : handles'[h] \in {hs[h], Unused}
<1>1. handles' \in [Handles -> Handle]
    BY NothingTyped DEF Collected
<1>2. \A h \in Handles :
        \/ handles'[h] = hs[h]
        \/ /\ handles'[h] = Unused
           /\ hs[h].state = "closed" /\ hs[h].holder = NoCaller
           /\ \A d \in Clients \ {} : calls[d].handle # h
    BY CollectedOnly
<1>3. \A h \in Handles :
        \/ handles'[h] = hs[h]
        \/ /\ handles'[h] = Unused
           /\ hs[h].state = "closed" /\ hs[h].holder = NoCaller
           /\ \A d \in Clients : calls[d].handle # h
    BY <1>2
<1> QED BY <1>1, <1>3 DEF ClosesPooled

\* Closing pooled handles takes none from a request, and leaks none.
LEMMA ClosingKeeps ==
    ASSUME HInv, NEW ms \in SUBSET Modes, ClosesPooled(ms), UNCHANGED calls
    PROVE  /\ RequestsHoldHandles'
           /\ PooledAreOpen'
           /\ NoHandleLeaks'
           /\ ConnectionsAreHeldByRunners'
           /\ StagedInOrder'
           /\ pool' \in [Modes -> Entry]
           /\ handles' \in [Handles -> Handle]
<1>1. /\ \A m \in Modes : pool'[m] = IF m \in ms THEN NoEntry ELSE pool[m]
      /\ NoEntry \in Entry /\ NoEntry.handle = NoHandle
      /\ pool \in [Modes -> Entry]
    BY DEF ClosesPooled, NoEntry, Entry, HInv, TypeOK
<1>2. pool' \in [Modes -> Entry] /\ handles' \in [Handles -> Handle]
    BY <1>1 DEF ClosesPooled
<1>3. Unused.state = "unused" /\ Unused.holder = NoCaller
    BY NothingTyped
<1>4. NoHandle \notin Handles /\ NoCaller \notin Clients
    BY ParametersAssumption DEF Clients
<1>5. \A m \in Modes : pool[m].handle \in Handles \cup {NoHandle}
    BY <1>1 DEF Entry
<1>6. \A d \in Clients : calls[d].handle \in Handles =>
        LET h == calls[d].handle IN
        /\ handles'[h].mode = handles[h].mode
        /\ handles'[h].holder = handles[h].holder
        /\ handles'[h].state = IF \E m \in ms : pool[m].handle = h THEN "closed" ELSE handles[h].state
    BY DEF ClosesPooled
<1>7. RequestsHoldHandles'
  <2>1. ASSUME NEW d \in Clients
        PROVE  LET h == calls[d].handle IN
               /\ calls[d].pc \in {"idle", "ask", "open"} => h = NoHandle
               /\ calls[d].pc \in {"pool", "acquire", "run"} =>
                    /\ h \in Handles
                    /\ handles'[h].state # "unused"
                    /\ handles'[h].mode = Mode(calls[d].face)
               /\ calls[d].pc = "pool" =>
                    /\ handles'[h].state = "open"
                    /\ \A m \in Modes : pool'[m].handle # h
                    /\ \A e \in Clients \ {d} : calls[e].handle # h
               /\ calls[d].pc = "run" => handles'[h].holder = d
      BY <1>1, <1>4, <1>6 DEF HInv, RequestsHoldHandles
  <2> QED BY <2>1 DEF RequestsHoldHandles
<1>8. PooledAreOpen'
  <2> SUFFICES ASSUME NEW m \in Modes, pool'[m].handle # NoHandle
               PROVE  handles'[pool'[m].handle].state = "open" /\ handles'[pool'[m].handle].mode = m
      BY DEF PooledAreOpen
  <2>1. m \notin ms /\ pool'[m] = pool[m]
      BY <1>1
  <2> DEFINE h == pool[m].handle
  <2>2. h \in Handles /\ handles[h].state = "open" /\ handles[h].mode = m
      BY <1>5, <2>1 DEF HInv, PooledAreOpen
  <2>3. ~ \E n \in ms : pool[n].handle = h
    <3>1. \A n \in ms : pool[n].handle = h => handles[h].mode = n
        BY <1>4, <2>2 DEF HInv, PooledAreOpen
    <3> QED BY <2>1, <2>2, <3>1
  <2>4. handles'[h].mode = handles[h].mode /\ handles'[h].state = "open"
      BY <2>2, <2>3 DEF ClosesPooled
  <2> QED BY <2>1, <2>2, <2>4
<1>9. NoHandleLeaks'
  <2> SUFFICES ASSUME NEW h \in Handles, handles'[h].state = "open"
               PROVE  \/ \E m \in Modes : pool'[m].handle = h
                      \/ \E d \in Clients : calls[d].pc = "pool" /\ calls[d].handle = h
      BY DEF NoHandleLeaks
  <2>1. handles[h].state = "open" /\ ~ \E m \in ms : pool[m].handle = h
      BY <1>3 DEF ClosesPooled
  <2> QED BY <1>1, <2>1 DEF HInv, NoHandleLeaks
<1>10. ConnectionsAreHeldByRunners'
  <2>1. \A h \in Handles : handles'[h].holder # NoCaller => handles'[h].holder = handles[h].holder
      BY <1>3 DEF ClosesPooled
  <2> QED BY <2>1 DEF HInv, ConnectionsAreHeldByRunners
<1>11. StagedInOrder'
  <2>1. ASSUME NEW d \in Clients, calls[d].staged # {}
        PROVE  calls[d].pc = "run" /\ handles'[calls[d].handle].mode = "rw"
      BY <1>6, <2>1 DEF HInv, StagedInOrder, RequestsHoldHandles
  <2> QED BY <2>1 DEF HInv, StagedInOrder
<1> QED BY <1>2, <1>7, <1>8, <1>9, <1>10, <1>11

\* The sweep closes the handles nobody asked for lately.
LEMMA SweepStep ==
    ASSUME HInv, Sweep
    PROVE  HInv'
<1> DEFINE ms == {m \in Modes : pool[m].idle}
<1>1. /\ CloseEntries(ms)
      /\ UNCHANGED <<file, content, hub, subs, views, calls, writes, unlinked, deleting, settled>>
    BY DEF Sweep
<1>2. ms \in SUBSET Modes
    OBVIOUS
<1> HIDE DEF ms
<1> DEFINE closing == [h \in Handles |->
                         IF \E m \in ms : pool[m].handle = h
                         THEN [handles[h] EXCEPT !.state = "closed", !.raced = FALSE]
                         ELSE handles[h]]
<1>3. \A h \in Handles : handles[h] \in Handle
    BY DEF HInv, TypeOK
<1>4. /\ closing \in [Handles -> Handle]
      /\ \A h \in Handles :
           /\ closing[h].mode = handles[h].mode
           /\ closing[h].inode = handles[h].inode
           /\ closing[h].hub = handles[h].hub
           /\ closing[h].holder = handles[h].holder
           /\ closing[h].state = IF \E m \in ms : pool[m].handle = h THEN "closed" ELSE handles[h].state
           /\ closing[h].state = "open" => closing[h] = handles[h]
    BY <1>3 DEF Handle
<1>5. /\ handles' = Collected(closing, {})
      /\ pool' = [m \in Modes |-> IF m \in ms THEN NoEntry ELSE pool[m]]
    BY <1>1 DEF CloseEntries
<1> HIDE DEF closing
<1>6. ClosesPooled(ms) /\ \A h \in Handles : handles'[h] \in {closing[h], Unused}
    BY <1>2, <1>4, <1>5, ClosesCollected
<1>7. /\ RequestsHoldHandles' /\ PooledAreOpen' /\ NoHandleLeaks' /\ ConnectionsAreHeldByRunners'
      /\ StagedInOrder' /\ pool' \in [Modes -> Entry] /\ handles' \in [Handles -> Handle]
    BY <1>1, <1>2, <1>6, ClosingKeeps
<1>8. HandlesAreOnFiles'
  <2>1. \A h \in Handles : handles'[h].state = "open" => handles'[h] = handles[h]
      BY <1>4, <1>6, NothingTyped
  <2>2. \A h \in Handles : handles'[h].state # "unused" =>
          /\ handles[h].state # "unused"
          /\ handles'[h].inode = handles[h].inode
          /\ handles'[h].hub = handles[h].hub
    <3>1. \A h \in Handles : (\E m \in ms : pool[m].handle = h) => handles[h].state # "unused"
        BY <1>2, ParametersAssumption DEF HInv, PooledAreOpen
    <3> QED BY <1>4, <1>6, <3>1, NothingTyped
  <2> QED BY <1>1, <2>1, <2>2 DEF HInv, HandlesAreOnFiles
<1>9. TypeOK' /\ FilesFollow' /\ WatchersRead'
    BY <1>1, <1>7 DEF HInv, TypeOK, FilesFollow, WatchersRead, Ready
<1> QED BY <1>7, <1>8, <1>9, HInvParts DEF Holding

\* A deletion closes what is pooled; what is being opened may be on its file.
LEMMA DeleteStep ==
    ASSUME HInv, Delete
    PROVE  HInv'
<1>1. /\ file # NoFile /\ unlinked < MaxDeletions /\ deleting' = TRUE
      /\ UNCHANGED <<file, content, hub, subs, views, calls, writes, unlinked, settled>>
  <2>1. unlinked \in Nat
      BY ParametersAssumption DEF HInv, TypeOK
  <2>2. unlinked + 0 < MaxDeletions
      BY DEF Delete, MayDelete
  <2>3. /\ file # NoFile /\ deleting' = TRUE
        /\ UNCHANGED <<file, content, hub, subs, views, calls, writes, unlinked, settled>>
      BY DEF Delete
  <2> QED BY <2>1, <2>2, <2>3
<1> DEFINE closing == [h \in Handles |->
                         IF \E m \in Modes : pool[m].handle = h
                         THEN [handles[h] EXCEPT !.state = "closed", !.raced = FALSE]
                         ELSE [handles[h] EXCEPT !.raced = handles[h].state = "open"]]
<1>2. \A h \in Handles : handles[h] \in Handle
    BY DEF HInv, TypeOK
<1>3. \A h \in Handles :
        /\ [handles[h] EXCEPT !.state = "closed", !.raced = FALSE] \in Handle
        /\ [handles[h] EXCEPT !.raced = (handles[h].state = "open")] \in Handle
    BY <1>2 DEF Handle
<1>4. /\ closing \in [Handles -> Handle]
      /\ \A h \in Handles :
           /\ closing[h].mode = handles[h].mode
           /\ closing[h].inode = handles[h].inode
           /\ closing[h].hub = handles[h].hub
           /\ closing[h].holder = handles[h].holder
           /\ closing[h].state = IF \E m \in Modes : pool[m].handle = h THEN "closed" ELSE handles[h].state
           /\ closing[h].state = "open" => closing[h].raced = TRUE
    BY <1>2, <1>3 DEF Handle
<1>5. /\ handles' = Collected(closing, {})
      /\ pool' = [m \in Modes |-> IF m \in Modes THEN NoEntry ELSE pool[m]]
    BY DEF Delete
<1> HIDE DEF closing
<1>6. ClosesPooled(Modes) /\ \A h \in Handles : handles'[h] \in {closing[h], Unused}
    BY <1>4, <1>5, ClosesCollected
<1>7. /\ RequestsHoldHandles' /\ PooledAreOpen' /\ NoHandleLeaks' /\ ConnectionsAreHeldByRunners'
      /\ StagedInOrder' /\ pool' \in [Modes -> Entry] /\ handles' \in [Handles -> Handle]
    BY <1>1, <1>6, ClosingKeeps
<1>8. HandlesAreOnFiles'
  <2>1. \A h \in Handles : handles'[h].state = "open" =>
          /\ handles[h].state = "open"
          /\ handles'[h].inode = handles[h].inode
          /\ handles'[h].raced
      BY <1>4, <1>6, NothingTyped
  <2>2. \A h \in Handles : handles'[h].state # "unused" =>
          /\ handles[h].state # "unused"
          /\ handles'[h].inode = handles[h].inode
          /\ handles'[h].hub = handles[h].hub
    <3>1. \A h \in Handles : (\E m \in Modes : pool[m].handle = h) => handles[h].state # "unused"
        BY ParametersAssumption DEF HInv, PooledAreOpen
    <3> QED BY <1>4, <1>6, <3>1, NothingTyped
  <2> QED BY <1>1, <2>1, <2>2 DEF HInv, HandlesAreOnFiles
<1>9. TypeOK' /\ FilesFollow' /\ WatchersRead'
    BY <1>1, <1>7 DEF HInv, TypeOK, FilesFollow, WatchersRead, Ready
<1> QED BY <1>7, <1>8, <1>9, HInvParts DEF Holding

\* The name is gone, and with it what was settled.
LEMMA UnlinkStep ==
    ASSUME HInv, Unlink
    PROVE  HInv'
<1>1. /\ deleting /\ file' = NoFile
      /\ unlinked' = IF file = NoFile THEN unlinked ELSE unlinked + 1
      /\ deleting' = FALSE /\ settled' = FALSE
      /\ UNCHANGED <<pool, handles, content, hub, subs, views, calls, writes>>
    BY DEF Unlink
<1>2. unlinked \in Nat /\ unlinked' \in 0..MaxDeletions
    BY <1>1, ParametersAssumption DEF HInv, TypeOK, FilesFollow
<1>3. TypeOK'
    BY <1>1, <1>2 DEF HInv, TypeOK
<1>4. HandlesAreOnFiles'
    BY <1>1, <1>2 DEF HInv, HandlesAreOnFiles
<1>5. FilesFollow'
    BY <1>1, <1>2 DEF HInv, FilesFollow
<1>6. Holding'
    BY <1>1, <1>4 DEF HInv, Holding, RequestsHoldHandles, PooledAreOpen, NoHandleLeaks,
                      ConnectionsAreHeldByRunners, StagedInOrder
<1>7. WatchersRead'
    BY <1>1 DEF HInv, WatchersRead, Ready
<1> QED BY <1>3, <1>5, <1>6, <1>7, HInvParts

\* An app is deleted under open handles: they keep all they have but the name
\* of their file.
LEMMA DeleteAppStep ==
    ASSUME HInv, DeleteApp
    PROVE  HInv'
<1> DEFINE left(h) == [handles[h] EXCEPT !.raced = @ \/ handles[h].state = "open"]
<1>1. /\ file # NoFile /\ MayDelete /\ file' = NoFile /\ unlinked' = unlinked + 1
      /\ handles' = [h \in Handles |-> left(h)] /\ settled' = FALSE
      /\ UNCHANGED <<pool, content, hub, subs, views, calls, writes, deleting>>
    BY DEF DeleteApp
<1>2. \A h \in Handles :
        /\ left(h) \in Handle
        /\ left(h).state = handles[h].state /\ left(h).mode = handles[h].mode
        /\ left(h).inode = handles[h].inode /\ left(h).hub = handles[h].hub
        /\ left(h).holder = handles[h].holder
        /\ left(h).state = "open" => left(h).raced
  <2>1. \A h \in Handles : handles[h] \in Handle
      BY DEF HInv, TypeOK
  <2> QED BY <2>1 DEF Handle
<1> HIDE DEF left
<1>3. /\ handles' \in [Handles -> Handle]
      /\ \A h \in Handles :
           /\ handles'[h].state = handles[h].state /\ handles'[h].mode = handles[h].mode
           /\ handles'[h].inode = handles[h].inode /\ handles'[h].hub = handles[h].hub
           /\ handles'[h].holder = handles[h].holder
           /\ handles'[h].state = "open" => handles'[h].raced
    BY <1>1, <1>2
<1>4. /\ unlinked \in Nat /\ unlinked < MaxDeletions
      /\ deleting => unlinked + 1 < MaxDeletions
    BY <1>1, ParametersAssumption DEF HInv, TypeOK, MayDelete
<1>5. TypeOK'
  <2>1. unlinked' \in 0..MaxDeletions
      BY <1>1, <1>4, ParametersAssumption
  <2> QED BY <1>1, <1>3, <2>1 DEF HInv, TypeOK
<1>6. HandlesAreOnFiles'
    BY <1>1, <1>3, <1>4 DEF HInv, HandlesAreOnFiles
<1>7. FilesFollow'
    BY <1>1, <1>4 DEF HInv, FilesFollow
<1>8. RequestsHoldHandles' /\ PooledAreOpen' /\ NoHandleLeaks' /\ ConnectionsAreHeldByRunners'
      /\ StagedInOrder'
  <2>1. pool \in [Modes -> Entry] /\ calls \in [Clients -> Call]
      BY DEF HInv, TypeOK
  <2>2. RequestsHoldHandles'
      BY <1>1, <1>3 DEF HInv, RequestsHoldHandles
  <2>3. PooledAreOpen'
      BY <1>1, <1>3, <2>1 DEF HInv, PooledAreOpen, Entry
  <2>4. NoHandleLeaks' /\ ConnectionsAreHeldByRunners'
      BY <1>1, <1>3 DEF HInv, NoHandleLeaks, ConnectionsAreHeldByRunners
  <2>5. \A c \in Clients : calls[c].staged # {} => calls[c].handle \in Handles
      BY DEF HInv, StagedInOrder, RequestsHoldHandles
  <2>6. StagedInOrder'
      BY <1>1, <1>3, <2>5 DEF HInv, StagedInOrder
  <2> QED BY <2>2, <2>3, <2>4, <2>6
<1>9. WatchersRead'
    BY <1>1 DEF HInv, WatchersRead, Ready
<1> QED BY <1>5, <1>6, <1>7, <1>8, <1>9, HInvParts DEF Holding

\* A process that starts, for the first time or again, has no handle.
Fresh ==
    /\ pool = [m \in Modes |-> NoEntry]
    /\ handles = [h \in Handles |-> Unused]
    /\ hub = 0 /\ subs = [w \in Watchers |-> [hub |-> 0, pending |-> 0]]
    /\ calls = [c \in Clients |-> Idle]
    /\ views = [w \in Watchers |-> {}]

\* What is in memory has its type.
MemoryTyped ==
    /\ pool \in [Modes -> Entry] /\ handles \in [Handles -> Handle] /\ hub \in Nat
    /\ subs \in [Watchers -> [hub: Nat, pending: 0..BufferSize]]
    /\ calls \in [Clients -> Call] /\ views \in [Watchers -> SUBSET Statements]

\* Where nothing has happened yet, everything is accounted for.
LEMMA FreshStart == Fresh => Holding /\ WatchersRead /\ MemoryTyped
<1> SUFFICES ASSUME Fresh PROVE Holding /\ WatchersRead /\ MemoryTyped
    OBVIOUS
<1> USE DEF Fresh
<1>1. /\ \A c \in Clients : calls[c] = Idle
      /\ \A h \in Handles : handles[h] = Unused
      /\ \A m \in Modes : pool[m].handle = NoHandle
      /\ NoEntry \in Entry
    BY DEF NoEntry, Entry
<1>2. RequestsHoldHandles /\ PooledAreOpen /\ HandlesAreOnFiles /\ NoHandleLeaks
      /\ ConnectionsAreHeldByRunners
    BY <1>1, NothingTyped DEF RequestsHoldHandles, PooledAreOpen, HandlesAreOnFiles, NoHandleLeaks,
                              ConnectionsAreHeldByRunners
<1>3. StagedInOrder
    BY <1>1, NothingTyped DEF StagedInOrder
<1>4. WatchersRead
    BY <1>1, NothingTyped DEF WatchersRead, Ready, Clients
<1>5. [hub |-> 0, pending |-> 0] \in [hub: Nat, pending: 0..BufferSize]
    BY ParametersAssumption
<1> QED BY <1>1, <1>2, <1>3, <1>4, <1>5, NothingTyped DEF Holding, MemoryTyped

\* The process restarts.
LEMMA RestartStep ==
    ASSUME HInv, Restart
    PROVE  HInv'
<1>1. Fresh'
    BY DEF Restart, Fresh
<1>2. Holding' /\ WatchersRead' /\ MemoryTyped'
    BY <1>1, FreshStart, PTL
<1>3. TypeOK' /\ FilesFollow'
    BY <1>2 DEF Restart, HInv, TypeOK, FilesFollow, MemoryTyped
<1> QED BY <1>2, <1>3, HInvParts

\* The first process finds no file.
LEMMA HInvInit == Init => HInv
<1> SUFFICES ASSUME Init PROVE HInv
    OBVIOUS
<1>1. Holding /\ WatchersRead /\ MemoryTyped
    BY FreshStart DEF Init, Fresh
<1>2. content \in [Inodes -> SUBSET Statements] /\ \A i \in Inodes : content[i] = {}
    BY DEF Init
<1>3. /\ file = NoFile /\ writes = 0 /\ unlinked = 0 /\ deleting = FALSE /\ settled = TRUE
      /\ 0 \in 0..MaxWrites /\ 0 \in 0..MaxDeletions
    BY ParametersAssumption DEF Init
<1>4. TypeOK
    BY <1>1, <1>2, <1>3 DEF TypeOK, MemoryTyped
<1>5. FilesFollow
    BY <1>2, <1>3 DEF FilesFollow
<1> QED BY <1>1, <1>4, <1>5 DEF HInv, Holding

\* Time passes for a pooled handle.
LEMMA GrowIdleStep ==
    ASSUME HInv, NEW m \in Modes, GrowIdle(m)
    PROVE  HInv'
<1> DEFINE entry == [pool[m] EXCEPT !.idle = TRUE]
<1>1. /\ pool' = [pool EXCEPT ![m].idle = TRUE]
      /\ UNCHANGED <<handles, file, content, hub, subs, views, calls, writes, unlinked, deleting, settled>>
    BY DEF GrowIdle
<1>2. pool \in [Modes -> Entry]
    BY DEF HInv, TypeOK
<1>3. entry \in Entry /\ entry.handle = pool[m].handle /\ pool' = [pool EXCEPT ![m] = entry]
    BY <1>1, <1>2 DEF Entry
<1> HIDE DEF entry
<1>4. /\ pool' \in [Modes -> Entry]
      /\ \A n \in Modes : pool'[n].handle = pool[n].handle
    BY <1>2, <1>3
<1>5. UNCHANGED <<handles, file, content, hub, subs, views, calls, writes, unlinked, deleting, settled>>
    BY <1>1
<1>6. Holding'
    BY <1>4, <1>5 DEF HInv, Holding, RequestsHoldHandles, PooledAreOpen, HandlesAreOnFiles,
                      NoHandleLeaks, ConnectionsAreHeldByRunners, StagedInOrder
<1>7. TypeOK' /\ FilesFollow' /\ WatchersRead'
    BY <1>4, <1>5 DEF HInv, TypeOK, FilesFollow, WatchersRead, Ready
<1> QED BY <1>6, <1>7, HInvParts

\* The handles stay accounted for in every step.
LEMMA HInvStep == HInv /\ [Next]_vars => HInv'
<1> SUFFICES ASSUME HInv, [Next]_vars PROVE HInv'
    OBVIOUS
<1>1. ASSUME NEW c \in Clients, Run(c) PROVE HInv'
    BY <1>1, OpenHandleStep, OpenFailsStep, PoolHandleStep, TakePooledStep, AcquireStep,
       HandleGoneStep, ReadStep, WriteRowStep, CommitStep DEF Run
<1>2. ASSUME NEW w \in Watchers, Subscribe(w) \/ HearChange(w) \/ QueryAgain(w) \/ Unsubscribe(w)
      PROVE  HInv'
    BY <1>2, WatcherAsks, QueryAgainStep, UnsubscribeStep
<1>3. CASE UNCHANGED vars
  <2>1. Holding'
      BY <1>3 DEF vars, HInv, Holding, RequestsHoldHandles, PooledAreOpen, HandlesAreOnFiles,
                  NoHandleLeaks, ConnectionsAreHeldByRunners, StagedInOrder
  <2>2. TypeOK' /\ FilesFollow' /\ WatchersRead'
      BY <1>3 DEF vars, HInv, TypeOK, FilesFollow, WatchersRead, Ready
  <2> QED BY <2>1, <2>2, HInvParts
<1> QED BY <1>1, <1>2, <1>3, AskQueryStep, GrowIdleStep, SweepStep, DeleteStep, UnlinkStep,
           DeleteAppStep, RestartStep DEF Next

\* HandlesAreKept: open handles are pooled or about to be, the pool serves the
\* file that has the name but for handles opened beside coreDBDelete or left open
\* by an app's deletion, and connections are held by requests that run, whatever
\* requests, sweeps, deletions and restarts fall in with each other.
THEOREM HandlesAccounted == Spec => []HandlesAreKept
<1>1. HInv => HandlesAreKept
  <2> SUFFICES ASSUME HInv PROVE PoolServesTheFile
      BY DEF HInv, HandlesAreKept
  <2>1. \A m \in Modes : pool[m].handle # NoHandle =>
          pool[m].handle \in Handles /\ handles[pool[m].handle].state = "open"
      BY DEF HInv, TypeOK, Entry, PooledAreOpen
  <2> QED BY <2>1 DEF HInv, HandlesAreOnFiles, PoolServesTheFile
<1>2. HInv /\ [Next]_vars => HInv'
    BY HInvStep
<1>3. Init => HInv
    BY HInvInit
<1> QED BY <1>1, <1>2, <1>3, PTL DEF Spec

-----------------------------------------------------------------------------
(* Batches                                                                 *)

\* A batch commits both of its statements.
LEMMA CommitsWhole ==
    ASSUME HInv, BatchesAreWhole, NEW c \in Clients, Commit(c)
    PROVE  BatchesAreWhole'
<1> DEFINE i == handles[calls[c].handle].inode
           staged == calls[c].staged
<1>1. /\ content' = [content EXCEPT ![i] = @ \cup staged]
      /\ Cardinality(staged) = 2
      /\ views' = views
    BY DEF Commit
<1>2. PICK k \in Nat : staged \in {{}, {<<k, 1>>}, {<<k, 1>>, <<k, 2>>}}
    BY DEF HInv, StagedInOrder
<1>3. Cardinality({}) = 0 /\ Cardinality({<<k, 1>>}) = 1
    BY FS_EmptySet, FS_Singleton
<1> HIDE DEF staged, i
<1>4. staged = {<<k, 1>>, <<k, 2>>}
    BY <1>1, <1>2, <1>3
<1>5. \A j \in Inodes : content'[j] = content[j] \/ content'[j] = content[j] \cup staged
    BY <1>1 DEF HInv, TypeOK
<1>6. ASSUME NEW j \in Inodes PROVE Whole(content'[j])
  <2>1. Whole(content[j])
      BY DEF BatchesAreWhole
  <2>2. ASSUME NEW t \in content[j] \cup staged
        PROVE  {<<t[1], 1>>, <<t[1], 2>>} \subseteq content[j] \cup staged
    <3>1. CASE t \in content[j]
        BY <2>1, <3>1 DEF Whole
    <3>2. CASE t \in staged
      <4>1. t[1] = k
          BY <1>4, <3>2
      <4> QED BY <1>4, <4>1
    <3> QED BY <3>1, <3>2
  <2>3. Whole(content[j] \cup staged)
      BY <2>2 DEF Whole
  <2> QED BY <1>5, <2>1, <2>3
<1> QED BY <1>1, <1>6 DEF BatchesAreWhole

\* BatchesAreWhole: a batch is committed whole or not at all, and read so.
THEOREM BatchesStayWhole == Spec => []BatchesAreWhole
<1> DEFINE WInv == HInv /\ BatchesAreWhole
<1>1. Init => WInv
  <2> SUFFICES ASSUME Init PROVE BatchesAreWhole
      BY HInvInit
  <2> QED BY DEF Init, BatchesAreWhole, Whole
<1>2. WInv /\ [Next]_vars => WInv'
  <2> SUFFICES ASSUME WInv, [Next]_vars PROVE BatchesAreWhole'
      BY HInvStep
  <2>1. ASSUME NEW c \in Clients, Commit(c) PROVE BatchesAreWhole'
      BY <2>1, CommitsWhole
  <2>2. ASSUME NEW c \in Clients, Read(c) PROVE BatchesAreWhole'
    <3>1. handles[calls[c].handle].inode \in Inodes
      <4>1. calls[c].pc = "acquire"
          BY <2>2 DEF Read, Available
      <4>2. handles[calls[c].handle].inode \in 0..unlinked /\ unlinked \in 0..MaxDeletions
          BY <4>1 DEF HInv, TypeOK, RequestsHoldHandles, HandlesAreOnFiles
      <4> QED BY <4>2, ParametersAssumption DEF Inodes
    <3>2. content' = content /\ views' = IF c \in Watchers
            THEN [views EXCEPT ![c] = content[handles[calls[c].handle].inode]] ELSE views
        BY <2>2 DEF Read
    <3> QED BY <3>1, <3>2 DEF HInv, TypeOK, BatchesAreWhole
  <2>3. ASSUME content' = content, \A w \in Watchers : views'[w] \in {views[w], {}}
        PROVE  BatchesAreWhole'
      BY <2>3 DEF BatchesAreWhole, Whole
  <2>4. ASSUME NEW w \in Watchers, Unsubscribe(w) PROVE BatchesAreWhole'
    <3>1. content' = content /\ \A v \in Watchers : views'[v] \in {views[v], {}}
        BY <2>4 DEF Unsubscribe, HInv, TypeOK
    <3> QED BY <2>3, <3>1
  <2>5. ASSUME Restart PROVE BatchesAreWhole'
    <3>1. content' = content /\ \A v \in Watchers : views'[v] \in {views[v], {}}
        BY <2>5 DEF Restart
    <3> QED BY <2>3, <3>1
  <2>6. ASSUME UNCHANGED <<content, views>> PROVE BatchesAreWhole'
    <3>1. content' = content /\ \A v \in Watchers : views'[v] \in {views[v], {}}
        BY <2>6
    <3> QED BY <2>3, <3>1
  <2>7. \/ \E c \in Clients : Commit(c) \/ Read(c)
        \/ \E w \in Watchers : Unsubscribe(w)
        \/ Restart
        \/ UNCHANGED <<content, views>>
      BY DEF Next, AskQuery, Run, OpenHandle, OpenFails, PoolHandle, TakePooled, Acquire,
             HandleGone, WriteRow, StatementFails, Subscribe, HearChange, QueryAgain,
             GrowIdle, Sweep, Delete, Unlink, DeleteApp, vars
  <2> QED BY <2>1, <2>2, <2>4, <2>5, <2>6, <2>7
<1>3. WInv => BatchesAreWhole
    OBVIOUS
<1> QED BY <1>1, <1>2, <1>3, PTL DEF Spec

-----------------------------------------------------------------------------
(* Watchers                                                                *)

\* A request that has the use of an open handle has it from the pool.
LEMMA OpenIsPooled ==
    ASSUME HInv, NEW c \in Clients, calls[c].pc \in {"acquire", "run"},
           handles[calls[c].handle].state = "open"
    PROVE  pool[Mode(calls[c].face)].handle = calls[c].handle
<1> DEFINE h == calls[c].handle
<1>1. h \in Handles /\ handles[h].mode = Mode(calls[c].face)
    BY DEF HInv, RequestsHoldHandles
<1>2. ~ \E d \in Clients : calls[d].pc = "pool" /\ calls[d].handle = h
    BY DEF HInv, RequestsHoldHandles
<1>3. PICK m \in Modes : pool[m].handle = h
    BY <1>1, <1>2 DEF HInv, NoHandleLeaks
<1>4. pool[m].handle # NoHandle
    BY <1>1, <1>3, ParametersAssumption
<1> QED BY <1>1, <1>3, <1>4 DEF HInv, PooledAreOpen

\* A handle that is closed, or left to the one who is opening it.
LEMMA HandleCloses ==
    ASSUME NEW r \in Handle
    PROVE  /\ [r EXCEPT !.state = "closed", !.raced = FALSE] \in Handle
           /\ [r EXCEPT !.state = "closed", !.raced = FALSE].state = "closed"
           /\ [r EXCEPT !.raced = (r.state = "open")] \in Handle
           /\ [r EXCEPT !.raced = (r.state = "open")].state = r.state
<1>1. (r.state = "open") \in BOOLEAN
    OBVIOUS
<1> QED BY <1>1 DEF Handle

\* A handle that was given out is not opened again while a request has it.
LEMMA NeverReopened ==
    ASSUME HInv, [Next]_vars, NEW c \in Clients, calls[c].pc = "run",
           handles'[calls[c].handle].state = "open"
    PROVE  handles[calls[c].handle].state = "open"
<1> DEFINE h == calls[c].handle
<1>1. h \in Handles /\ handles \in [Handles -> Handle]
    BY DEF HInv, TypeOK, RequestsHoldHandles
<1>2. ASSUME NEW hs \in [Handles -> Handle], NEW leaving, handles' = Collected(hs, leaving)
      PROVE  hs[h].state = "open"
    BY <1>1, <1>2, CollectedOnly, NothingTyped
<1>3. ASSUME NEW d \in Clients, calls[d].pc \in {"acquire", "run"}, handles' = Released(d)
      PROVE  handles[h].state = "open"
    BY <1>1, <1>3, ReleasedLetsGo, NothingTyped DEF LetsGo
<1>4. ASSUME NEW d \in Clients, OpenHandle(d) PROVE handles[h].state = "open"
  <2> DEFINE g == CHOOSE g \in Handles : ~Referenced(g)
  <2>1. g \in Handles /\ ~Referenced(g)
      BY <1>4 DEF OpenHandle
  <2>2. h # g
      BY <2>1 DEF Referenced
  <2>3. handles'[h] = handles[h]
      BY <1>1, <1>4, <2>2 DEF OpenHandle
  <2> QED BY <2>3
<1>5. ASSUME NEW d \in Clients, TakePooled(d) PROVE handles[h].state = "open"
  <2> DEFINE closed == [handles[calls[d].handle] EXCEPT !.state = "closed"]
             hs == [handles EXCEPT ![calls[d].handle] = closed]
  <2>1. calls[d].pc = "pool" /\ handles' = Collected(hs, {d})
      BY <1>5 DEF TakePooled
  <2>2. calls[d].handle \in Handles /\ calls[d].handle # h
      BY <2>1 DEF HInv, RequestsHoldHandles
  <2>3. closed \in Handle
      BY <1>1, <2>2 DEF Handle
  <2>4. hs \in [Handles -> Handle] /\ hs[h] = handles[h]
      BY <1>1, <2>2, <2>3
  <2> HIDE DEF hs
  <2>5. hs[h].state = "open"
      BY <1>2, <2>1, <2>4
  <2> QED BY <2>4, <2>5
<1>6. ASSUME NEW d \in Clients, Acquire(d) PROVE handles[h].state = "open"
  <2>1. handles' = [handles EXCEPT ![calls[d].handle].holder = d]
        /\ handles[calls[d].handle].state = "open"
      BY <1>6 DEF Acquire, Available
  <2> QED BY <1>1, <2>1
<1>7. ASSUME NEW hs, handles' = Collected(hs, {}),
             \A g \in Handles : hs[g] \in Handle /\ (hs[g].state = "open" => handles[g].state = "open"),
             hs \in [Handles -> Handle]
      PROVE  handles[h].state = "open"
    BY <1>1, <1>2, <1>7
<1>8. ASSUME Sweep PROVE handles[h].state = "open"
  <2> DEFINE ms == {m \in Modes : pool[m].idle}
             hs == [g \in Handles |-> IF \E m \in ms : pool[m].handle = g
                      THEN [handles[g] EXCEPT !.state = "closed", !.raced = FALSE]
                      ELSE handles[g]]
  <2>1. \A g \in Handles : handles[g] \in Handle
      BY <1>1
  <2>2. handles' = Collected(hs, {})
      BY <1>8 DEF Sweep, CloseEntries
  <2>3. \A g \in Handles :
           /\ hs[g] \in Handle
           /\ hs[g].state = "open" => handles[g].state = "open"
      BY <2>1 DEF Handle
  <2>4. hs \in [Handles -> Handle]
      BY <2>3
  <2> HIDE DEF hs
  <2> QED BY <1>7, <2>2, <2>3, <2>4
<1>9. ASSUME Delete PROVE handles[h].state = "open"
  <2> DEFINE shut(g) == [handles[g] EXCEPT !.state = "closed", !.raced = FALSE]
             left(g) == [handles[g] EXCEPT !.raced = (handles[g].state = "open")]
             hs == [g \in Handles |-> IF \E m \in Modes : pool[m].handle = g
                      THEN shut(g) ELSE left(g)]
  <2>1. \A g \in Handles : handles[g] \in Handle
      BY <1>1
  <2>2. handles' = Collected(hs, {})
      BY <1>9 DEF Delete
  <2>3. \A g \in Handles :
           /\ shut(g) \in Handle /\ shut(g).state = "closed"
           /\ left(g) \in Handle /\ left(g).state = handles[g].state
      BY <2>1, HandleCloses
  <2> HIDE DEF shut, left
  <2>4. \A g \in Handles :
           /\ hs[g] \in Handle
           /\ hs[g].state = "open" => handles[g].state = "open"
      BY <2>3
  <2>5. hs \in [Handles -> Handle]
      BY <2>4
  <2> HIDE DEF hs
  <2> QED BY <1>7, <2>2, <2>4, <2>5
<1>10. ASSUME Restart PROVE FALSE
    BY <1>1, <1>10, NothingTyped DEF Restart
<1>11. ASSUME DeleteApp PROVE handles[h].state = "open"
  <2>1. handles[h] \in Handle
      BY <1>1
  <2>2. handles'[h] = [handles[h] EXCEPT !.raced = @ \/ handles[h].state = "open"]
      BY <1>1, <1>11 DEF DeleteApp
  <2> QED BY <2>1, <2>2 DEF Handle
<1>12. \/ UNCHANGED handles
       \/ Restart \/ Delete \/ DeleteApp \/ Sweep
       \/ \E d \in Clients :
            \/ Acquire(d) \/ TakePooled(d) \/ OpenHandle(d)
            \/ calls[d].pc \in {"acquire", "run"} /\ handles' = Released(d)
    BY DEF Next, AskQuery, Run, OpenFails, PoolHandle, HandleGone, Read, WriteRow, Commit,
           StatementFails, Available, Subscribe, HearChange, QueryAgain, Unsubscribe, GrowIdle,
           Unlink, vars
<1> QED BY <1>3, <1>4, <1>5, <1>6, <1>8, <1>9, <1>10, <1>11, <1>12

\* Only writing a row makes, or adds to, what a request has staged.
LEMMA StagedByWriting ==
    ASSUME HInv, [Next]_vars, NEW c \in Clients, calls'[c].staged # {}
    PROVE  WriteRow(c) \/ calls'[c] = calls[c]
<1>1. calls \in [Clients -> Call]
    BY DEF HInv, TypeOK
<1>2. ASSUME NEW d \in Clients, NEW new, new.staged = {}, calls' = [calls EXCEPT ![d] = new]
      PROVE  calls'[c] = calls[c]
    BY <1>1, <1>2
<1>3. \A d \in Clients : calls[d].pc # "run" => calls[d].staged = {}
    BY DEF HInv, StagedInOrder
<1>4. ASSUME NEW d \in Clients, NEW kind, NEW face, Lookup(d, kind, face)
      PROVE  calls'[c] = calls[c]
  <2> DEFINE given == [Idle EXCEPT !.pc = "acquire", !.kind = kind, !.face = face,
                                   !.handle = pool[Mode(face)].handle]
             sent == [Idle EXCEPT !.pc = "open", !.kind = kind, !.face = face]
  <2>1. given.staged = {} /\ sent.staged = {}
      BY DEF Idle
  <2>2. calls' = [calls EXCEPT ![d] = given] \/ calls' = [calls EXCEPT ![d] = sent]
      BY <1>4 DEF Lookup
  <2> HIDE DEF given, sent
  <2> QED BY <1>2, <2>1, <2>2
<1>5. ASSUME NEW d \in Clients, OpenHandle(d) \/ PoolHandle(d) \/ TakePooled(d) \/ Acquire(d)
      PROVE  calls'[c] = calls[c]
  <2>1. calls[d].pc # "run"
      BY <1>5 DEF OpenHandle, PoolHandle, TakePooled, Acquire, Available
  <2>2. calls[d].staged = {}
      BY <1>3, <2>1
  <2>3. CASE OpenHandle(d)
    <3> DEFINE h == CHOOSE g \in Handles : ~Referenced(g)
    <3>1. calls' = [calls EXCEPT ![d].pc = "pool", ![d].handle = h]
        BY <2>3 DEF OpenHandle
    <3> HIDE DEF h
    <3> QED BY <1>1, <2>2, <3>1 DEF Call
  <2>4. CASE PoolHandle(d) \/ Acquire(d)
    <3>1. \E pc : calls' = [calls EXCEPT ![d].pc = pc]
        BY <2>4 DEF PoolHandle, Acquire
    <3> QED BY <1>1, <2>2, <3>1 DEF Call
  <2>5. CASE TakePooled(d)
    <3> DEFINE h == pool[handles[calls[d].handle].mode].handle
    <3>1. calls' = [calls EXCEPT ![d].pc = "acquire", ![d].handle = h]
        BY <2>5 DEF TakePooled
    <3> HIDE DEF h
    <3> QED BY <1>1, <2>2, <3>1 DEF Call
  <2> QED BY <1>5, <2>3, <2>4, <2>5
<1>6. ASSUME NEW d \in Clients,
             \/ calls' = [calls EXCEPT ![d] = Idle]
             \/ calls' = [calls EXCEPT ![d] = Again(d)]
             \/ calls' = [calls EXCEPT ![d] = [Idle EXCEPT !.pc = "ask"]]
      PROVE  calls'[c] = calls[c]
  <2>1. Idle.staged = {} /\ Again(d).staged = {} /\ [Idle EXCEPT !.pc = "ask"].staged = {}
      BY NothingTyped DEF Idle
  <2> QED BY <1>2, <1>6, <2>1
<1>7. ASSUME NEW d \in Clients, WriteRow(d), d # c
      PROVE  calls'[c] = calls[c]
    BY <1>1, <1>7 DEF WriteRow
<1>8. ASSUME Restart PROVE FALSE
    BY <1>8, NothingTyped DEF Restart
<1>9. \/ UNCHANGED calls
      \/ Restart
      \/ \E d \in Clients :
           \/ \E kind, face : Lookup(d, kind, face)
           \/ OpenHandle(d) \/ PoolHandle(d) \/ TakePooled(d) \/ Acquire(d)
           \/ WriteRow(d)
           \/ calls' = [calls EXCEPT ![d] = Idle]
           \/ calls' = [calls EXCEPT ![d] = Again(d)]
           \/ calls' = [calls EXCEPT ![d] = [Idle EXCEPT !.pc = "ask"]]
  <2>1. ASSUME NEW d \in Callers, AskQuery(d)
        PROVE  d \in Clients /\ \E kind, face : Lookup(d, kind, face)
      BY <2>1 DEF AskQuery, Clients
  <2>2. ASSUME NEW w \in Watchers,
               Subscribe(w) \/ HearChange(w) \/ QueryAgain(w) \/ Unsubscribe(w)
        PROVE  /\ w \in Clients
               /\ \/ UNCHANGED calls
                  \/ \E kind, face : Lookup(w, kind, face)
                  \/ calls' = [calls EXCEPT ![w] = [Idle EXCEPT !.pc = "ask"]]
      BY <2>2 DEF Subscribe, HearChange, QueryAgain, Unsubscribe, Clients
  <2>3. ASSUME NEW d \in Clients, Run(d)
        PROVE  \/ OpenHandle(d) \/ PoolHandle(d) \/ TakePooled(d) \/ Acquire(d)
               \/ WriteRow(d)
               \/ calls' = [calls EXCEPT ![d] = Idle]
               \/ calls' = [calls EXCEPT ![d] = Again(d)]
      BY <2>3 DEF Run, OpenFails, HandleGone, Read, Commit, StatementFails
  <2>4. \/ UNCHANGED calls
        \/ Restart
        \/ \E d \in Callers : AskQuery(d)
        \/ \E d \in Clients : Run(d)
        \/ \E w \in Watchers : Subscribe(w) \/ HearChange(w) \/ QueryAgain(w) \/ Unsubscribe(w)
      BY DEF Next, GrowIdle, Sweep, Delete, Unlink, DeleteApp, vars
  <2> QED BY <2>1, <2>2, <2>3, <2>4
<1> QED BY <1>4, <1>5, <1>6, <1>7, <1>8, <1>9

\* A watcher's query is done, its page goes, it is busy, or it keeps what it
\* shows and what it has yet to hear of.
WatcherGoesOn(w) ==
    \/ Read(w)
    \/ subs'[w].hub = 0
    \/ calls'[w].pc # "idle"
    \/ /\ subs'[w].hub = subs[w].hub
       /\ subs[w].pending > 0 => subs'[w].pending > 0
       /\ views'[w] = views[w]
       /\ calls'[w].pc = calls[w].pc

\* Looking a handle up leaves the others alone, and makes the one who looks busy.
LEMMA LookupIsBusy ==
    ASSUME HInv, NEW d \in Clients, NEW kind, NEW face, Lookup(d, kind, face)
    PROVE  \A c \in Clients : IF c = d THEN calls'[c].pc # "idle" ELSE calls'[c] = calls[c]
<1>1. calls \in [Clients -> Call]
    BY DEF HInv, TypeOK
<1> DEFINE given == [Idle EXCEPT !.pc = "acquire", !.kind = kind, !.face = face,
                                 !.handle = pool[Mode(face)].handle]
           sent == [Idle EXCEPT !.pc = "open", !.kind = kind, !.face = face]
<1>2. given.pc # "idle" /\ sent.pc # "idle"
    BY DEF Idle
<1>3. calls' = [calls EXCEPT ![d] = given] \/ calls' = [calls EXCEPT ![d] = sent]
    BY DEF Lookup
<1> HIDE DEF given, sent
<1> QED BY <1>1, <1>2, <1>3

\* The same for every step of a request that has a handle to get or to use,
\* but for the two that answer it.
LEMMA RunIsBusy ==
    ASSUME HInv, NEW d \in Clients, Run(d), ~Read(d)
    PROVE  \A w \in Watchers :
             IF w = d THEN calls'[w].pc # "idle" ELSE calls'[w] = calls[w]
<1>1. calls \in [Clients -> Call] /\ Watchers \subseteq Clients
    BY DEF HInv, TypeOK, Clients
<1>2. ASSUME NEW new, calls' = [calls EXCEPT ![d] = new], new.pc # "idle" \/ d \notin Watchers
      PROVE  \A w \in Watchers : IF w = d THEN calls'[w].pc # "idle" ELSE calls'[w] = calls[w]
    BY <1>1, <1>2
<1>3. CASE OpenHandle(d)
  <2> DEFINE h == CHOOSE g \in Handles : ~Referenced(g)
  <2>1. calls' = [calls EXCEPT ![d].pc = "pool", ![d].handle = h]
      BY <1>3 DEF OpenHandle
  <2> HIDE DEF h
  <2> QED BY <1>1, <2>1 DEF Call
<1>4. CASE PoolHandle(d)
    BY <1>1, <1>4 DEF PoolHandle, Call
<1>5. CASE Acquire(d)
    BY <1>1, <1>5 DEF Acquire, Call
<1>6. CASE TakePooled(d)
  <2> DEFINE h == pool[handles[calls[d].handle].mode].handle
  <2>1. calls' = [calls EXCEPT ![d].pc = "acquire", ![d].handle = h]
      BY <1>6 DEF TakePooled
  <2> HIDE DEF h
  <2> QED BY <1>1, <2>1 DEF Call
<1>7. CASE OpenFails(d) \/ HandleGone(d) \/ StatementFails(d)
  <2>1. calls' = [calls EXCEPT ![d] = Again(d)]
      BY <1>7 DEF OpenFails, HandleGone, StatementFails
  <2>2. d \in Watchers => Again(d).pc # "idle"
      BY NothingTyped
  <2> QED BY <1>2, <2>1, <2>2
<1>8. CASE WriteRow(d)
  <2>1. calls[d].kind = "write" /\ \A c \in Clients \ {d} : calls'[c] = calls[c]
      BY <1>1, <1>8 DEF WriteRow
  <2>2. d \notin Watchers
      BY <2>1 DEF HInv, WatchersRead
  <2> QED BY <1>1, <2>1, <2>2
<1>9. CASE Commit(d)
  <2>1. calls[d].kind = "write" /\ calls' = [calls EXCEPT ![d] = Idle]
      BY <1>9 DEF Commit
  <2>2. d \notin Watchers
      BY <2>1 DEF HInv, WatchersRead
  <2> QED BY <1>2, <2>1, <2>2
<1> QED BY <1>3, <1>4, <1>5, <1>6, <1>7, <1>8, <1>9 DEF Run

\* What a watcher does, and what it keeps when others do something.
LEMMA WatcherSteps ==
    ASSUME HInv, [Next]_vars, NEW w \in Watchers
    PROVE  WatcherGoesOn(w)
<1>1. /\ calls \in [Clients -> Call] /\ Watchers \subseteq Clients
      /\ subs \in [Watchers -> [hub: Nat, pending: 0..BufferSize]]
      /\ views \in [Watchers -> SUBSET Statements]
    BY DEF HInv, TypeOK, Clients
<1>2. ASSUME UNCHANGED <<subs, views>>, calls'[w].pc # "idle" \/ calls'[w] = calls[w]
      PROVE  WatcherGoesOn(w)
    BY <1>2 DEF WatcherGoesOn
<1>3. ASSUME NEW d \in Clients, Run(d) PROVE WatcherGoesOn(w)
  <2>1. CASE Read(d)
    <3>1. CASE d = w
        BY <2>1, <3>1 DEF WatcherGoesOn
    <3>2. CASE d # w
      <4>1. calls'[w] = calls[w] /\ views'[w] = views[w] /\ subs' = subs
          BY <1>1, <2>1, <3>2 DEF Read
      <4> QED BY <4>1 DEF WatcherGoesOn
    <3> QED BY <3>1, <3>2
  <2>2. CASE ~Read(d)
    <3>1. calls'[w].pc # "idle" \/ calls'[w] = calls[w]
        BY <1>3, <2>2, RunIsBusy
    <3>2. CASE WriteRow(d)
      <4>1. views' = views /\ subs' = Heard(calls[d].handle)
          BY <3>2 DEF WriteRow
      <4>2. /\ subs'[w].hub = subs[w].hub
            /\ subs[w].pending > 0 => subs'[w].pending > 0
          BY <1>1, <4>1, ParametersAssumption DEF Heard
      <4> QED BY <3>1, <4>1, <4>2 DEF WatcherGoesOn
    <3>3. CASE ~WriteRow(d)
      <4>1. UNCHANGED <<subs, views>>
          BY <1>3, <2>2, <3>3 DEF Run, OpenHandle, OpenFails, PoolHandle, TakePooled, Acquire,
                                  HandleGone, Commit, StatementFails
      <4> QED BY <1>2, <3>1, <4>1
    <3> QED BY <3>2, <3>3
  <2> QED BY <2>1, <2>2
<1>4. ASSUME NEW d \in Callers, AskQuery(d) PROVE WatcherGoesOn(w)
  <2>1. d \in Clients /\ d # w
      BY ParametersAssumption DEF Clients
  <2>2. UNCHANGED <<subs, views>> /\ \E kind, face : Lookup(d, kind, face)
      BY <1>4 DEF AskQuery
  <2>3. calls'[w] = calls[w]
      BY <1>1, <2>1, <2>2, LookupIsBusy
  <2> QED BY <1>2, <2>2, <2>3
<1>5. ASSUME NEW v \in Watchers, Subscribe(v) \/ HearChange(v) PROVE WatcherGoesOn(w)
  <2>1. calls' = [calls EXCEPT ![v] = [Idle EXCEPT !.pc = "ask"]] /\ views' = views
      BY <1>5 DEF Subscribe, HearChange
  <2>2. v # w => subs'[w] = subs[w]
      BY <1>1, <1>5 DEF Subscribe, HearChange
  <2>3. [Idle EXCEPT !.pc = "ask"].pc # "idle"
      BY DEF Idle
  <2>4. CASE v = w
      BY <1>1, <2>1, <2>3, <2>4 DEF WatcherGoesOn
  <2>5. CASE v # w
      BY <1>1, <2>1, <2>2, <2>5 DEF WatcherGoesOn
  <2> QED BY <2>4, <2>5
<1>6. ASSUME NEW v \in Watchers, QueryAgain(v) PROVE WatcherGoesOn(w)
  <2>1. UNCHANGED <<subs, views>> /\ Lookup(v, "read", "member")
      BY <1>6 DEF QueryAgain
  <2>2. calls'[w].pc # "idle" \/ calls'[w] = calls[w]
      BY <1>1, <2>1, LookupIsBusy
  <2> QED BY <1>2, <2>1, <2>2
<1>7. ASSUME NEW v \in Watchers, Unsubscribe(v) PROVE WatcherGoesOn(w)
  <2>1. CASE v = w
      BY <1>1, <1>7, <2>1 DEF Unsubscribe, WatcherGoesOn
  <2>2. CASE v # w
      BY <1>1, <1>7, <2>2 DEF Unsubscribe, WatcherGoesOn
  <2> QED BY <2>1, <2>2
<1>8. ASSUME Restart PROVE WatcherGoesOn(w)
    BY <1>8 DEF Restart, WatcherGoesOn
<1>9. \/ UNCHANGED <<subs, views, calls>>
      \/ Restart
      \/ \E d \in Callers : AskQuery(d)
      \/ \E d \in Clients : Run(d)
      \/ \E v \in Watchers : Subscribe(v) \/ HearChange(v) \/ QueryAgain(v) \/ Unsubscribe(v)
    BY DEF Next, GrowIdle, Sweep, Delete, Unlink, DeleteApp, vars
<1> QED BY <1>2, <1>3, <1>4, <1>5, <1>6, <1>7, <1>8, <1>9

\* What an open batch wrote stays heard: while it has the connection of the
\* members' handle, no watcher's query is answered.
LEMMA HeardStep ==
    ASSUME HInv, BatchesAreHeard, [Next]_vars
    PROVE  BatchesAreHeard'
<1> SUFFICES ASSUME NEW c \in Clients, calls'[c].staged # {},
                    handles'[calls'[c].handle].state = "open",
                    NEW w \in Watchers, subs'[w].hub # 0
             PROVE  subs'[w].pending > 0 \/ calls'[w].pc # "idle"
    BY DEF BatchesAreHeard, Ready
<1>1. /\ Watchers \subseteq Clients /\ subs \in [Watchers -> [hub: Nat, pending: 0..BufferSize]]
      /\ calls \in [Clients -> Call]
    BY DEF HInv, TypeOK, Clients
<1>2. CASE WriteRow(c)
  <2> DEFINE h == calls[c].handle
  <2>1. calls[c].pc = "run" /\ subs' = Heard(h) /\ hub' = hub
      BY <1>2 DEF WriteRow
  <2>2. h \in Handles /\ handles[h].hub = hub /\ hub # 0
      BY <2>1 DEF HInv, RequestsHoldHandles, HandlesAreOnFiles
  <2>3. subs[w].hub \in {0, hub}
      BY DEF HInv, WatchersRead
  <2>4. subs'[w] = IF subs[w].hub # 0 /\ subs[w].hub = handles[h].hub
                   THEN [subs[w] EXCEPT !.pending = IF @ < BufferSize THEN @ + 1 ELSE @]
                   ELSE subs[w]
      BY <2>1 DEF Heard
  <2>5. subs[w].hub = handles[h].hub /\ subs[w].hub # 0
      BY <2>2, <2>3, <2>4
  <2>6. subs'[w].pending = IF subs[w].pending < BufferSize
                           THEN subs[w].pending + 1 ELSE subs[w].pending
      BY <1>1, <2>4, <2>5
  <2>7. subs[w].pending \in Nat /\ BufferSize \in Nat /\ BufferSize > 0
      BY <1>1, ParametersAssumption
  <2> QED BY <2>6, <2>7
<1>3. CASE calls'[c] = calls[c]
  <2> DEFINE h == calls[c].handle
  <2>1. calls[c].staged # {} /\ calls[c].pc = "run"
      BY <1>3 DEF HInv, StagedInOrder
  <2>2. handles[h].state = "open"
      BY <1>3, <2>1, NeverReopened
  <2>3. subs[w].hub # 0 => subs[w].pending > 0 \/ calls[w].pc # "idle"
      BY <2>1, <2>2 DEF BatchesAreHeard, Ready
  <2>4. ~Read(w)
    <3> SUFFICES ASSUME Read(w) PROVE FALSE
        OBVIOUS
    <3>1. /\ calls[w].pc = "acquire"
          /\ handles[calls[w].handle].state = "open"
          /\ handles[calls[w].handle].holder = NoCaller
        BY DEF Read, Available
    <3>2. pool[Mode(calls[w].face)].handle = calls[w].handle
        BY <1>1, <3>1, OpenIsPooled
    <3>3. pool[Mode(calls[c].face)].handle = h
        BY <2>1, <2>2, OpenIsPooled
    <3>4. Mode(calls[w].face) = "rw"
        BY DEF HInv, WatchersRead, Mode
    <3>5. Mode(calls[c].face) = "rw"
        BY <2>1 DEF HInv, StagedInOrder, RequestsHoldHandles
    <3>6. handles[h].holder = c
        BY <2>1 DEF HInv, RequestsHoldHandles
    <3> QED BY <3>1, <3>2, <3>3, <3>4, <3>5, <3>6, ParametersAssumption DEF Clients
  <2> QED BY <2>3, <2>4, WatcherSteps DEF WatcherGoesOn
<1> QED BY <1>2, <1>3, StagedByWriting

\* What the database holds changes with a commit, and with what undoes all that
\* was settled.
LEMMA VisibleSteps ==
    ASSUME HInv, [Next]_vars, settled'
    PROVE  \/ settled /\ Visible' = Visible
           \/ Restart
           \/ \E c \in Clients : Commit(c)
<1>1. ASSUME NEW c \in Clients, OpenHandle(c) PROVE settled /\ Visible' = Visible
  <2>1. /\ file' = IF file = NoFile THEN unlinked ELSE file
        /\ content' = content /\ settled' = settled
      BY <1>1 DEF OpenHandle
  <2>2. CASE file # NoFile
      BY <2>1, <2>2 DEF Visible
  <2>3. CASE file = NoFile
    <3>1. unlinked \in Inodes /\ unlinked # NoFile
        BY ParametersAssumption DEF HInv, TypeOK, Inodes
    <3>2. content[unlinked] = {}
        BY <2>3, <3>1 DEF HInv, FilesFollow
    <3> QED BY <2>1, <2>3, <3>1, <3>2 DEF Visible
  <2> QED BY <2>2, <2>3
<1>2. ASSUME UNCHANGED <<file, content, settled>> PROVE settled /\ Visible' = Visible
    BY <1>2 DEF Visible
<1>3. \/ UNCHANGED <<file, content, settled>>
      \/ Restart
      \/ Unlink \/ DeleteApp
      \/ \E c \in Clients : OpenHandle(c) \/ Commit(c)
    BY DEF Next, AskQuery, Run, OpenFails, PoolHandle, TakePooled, Acquire, HandleGone, Read,
           WriteRow, StatementFails, Subscribe, HearChange, QueryAgain, Unsubscribe, GrowIdle,
           Sweep, Delete, vars
<1> QED BY <1>1, <1>2, <1>3 DEF Unlink, DeleteApp

\* What a watcher reads is what the database holds, before the file is deleted.
LEMMA ReadsTheVisible ==
    ASSUME HInv, NEW w \in Watchers, Read(w), settled
    PROVE  views'[w] = Visible'
<1> DEFINE h == calls[w].handle
<1>1. w \in Clients
    BY DEF Clients
<1>2. calls[w].pc = "acquire" /\ handles[h].state = "open"
    BY DEF Read, Available
<1>3. h \in Handles
    BY <1>1, <1>2 DEF HInv, RequestsHoldHandles
<1>4. handles[h].inode = file /\ handles[h].inode \in 0..unlinked
    BY <1>2, <1>3 DEF HInv, HandlesAreOnFiles
<1>5. file # NoFile
    BY <1>4, ParametersAssumption DEF HInv, TypeOK
<1>6. views'[w] = content[handles[h].inode] /\ content' = content /\ file' = file
    BY DEF Read, HInv, TypeOK
<1> QED BY <1>4, <1>5, <1>6 DEF Visible

\* A watcher that is behind still has something to hear of.
LEMMA ToldStep ==
    ASSUME HInv, BatchesAreHeard, StaleViewsAreTold, [Next]_vars
    PROVE  StaleViewsAreTold'
<1> SUFFICES ASSUME settled', NEW w \in Watchers, subs'[w].hub # 0,
                    calls'[w].pc = "idle", ~(subs'[w].pending > 0)
             PROVE  views'[w] = Visible'
    BY DEF StaleViewsAreTold, Ready
<1>1. CASE Read(w)
  <2>1. settled
      BY <1>1 DEF Read
  <2> QED BY <1>1, <2>1, ReadsTheVisible
<1>2. CASE ~Read(w)
  <2>1. /\ subs[w].hub # 0 /\ ~(subs[w].pending > 0)
        /\ views'[w] = views[w] /\ Ready(w)
      BY <1>2, WatcherSteps DEF WatcherGoesOn, Ready
  <2>2. CASE settled /\ Visible' = Visible
      BY <2>1, <2>2 DEF StaleViewsAreTold
  <2>3. CASE Restart
      BY <2>3 DEF Restart
  <2>4. ASSUME NEW c \in Clients, Commit(c) PROVE FALSE
    <3>1. settled' = (settled /\ handles[calls[c].handle].state = "open")
        BY <2>4 DEF Commit
    <3>2. Cardinality(calls[c].staged) = 2
        BY <2>4 DEF Commit
    <3>3. Cardinality({}) = 0
        BY FS_EmptySet
    <3>4. calls[c].staged # {}
        BY <3>2, <3>3
    <3> QED BY <2>1, <3>1, <3>4 DEF BatchesAreHeard
  <2> QED BY <2>2, <2>3, <2>4, VisibleSteps
<1> QED BY <1>1, <1>2

\* StaleViewsAreTold: a watcher shows what the database holds, or has an event
\* left, or its query is under way; dropped events and events that come before
\* their commit leave none behind.
THEOREM WatchersAreTold == Spec => []StaleViewsAreTold
<1> DEFINE TInv == HInv /\ BatchesAreHeard /\ StaleViewsAreTold
<1>1. Init => TInv
  <2> SUFFICES ASSUME Init PROVE BatchesAreHeard /\ StaleViewsAreTold
      BY HInvInit
  <2>1. \A w \in Watchers : subs[w].hub = 0
      BY DEF Init
  <2> QED BY <2>1 DEF BatchesAreHeard, StaleViewsAreTold
<1>2. TInv /\ [Next]_vars => TInv'
    BY HInvStep, HeardStep, ToldStep
<1>3. TInv => StaleViewsAreTold
    OBVIOUS
<1> QED BY <1>1, <1>2, <1>3, PTL DEF Spec


-----------------------------------------------------------------------------
(***************************************************************************)
(* Proofs about Services: for any number of services, slugs, gates and     *)
(* requests, the mounts follow the rows.                                   *)
(***************************************************************************)
\* The invariant.  A request that shared a thing with another has crossed in all
\* it is about; one that has not is alone with it.
Alone(r) == ~(r.about \subseteq crossed)
AboutIsApart ==
    \A k, l \in Handlers :
        k # l /\ req[k].about \cap req[l].about # {} => req[k].about \cup req[l].about \subseteq crossed

\* What requests know of what they work on.
Knows(r) ==
    /\ r.id \in Ids /\ r.id < nextId /\ r.row \in Row
    /\ About(r.id, r.row) \subseteq r.about
    /\ r.at \in {"update", "load"} => SlugOf(r.old) \subseteq r.about
    /\ r.at = "register" => r.tools # Gone
    /\ r.at \in {"write", "erase"} => r.row.kind \in Defined
    /\ r.at = "write" => r.old = r.row.url
    /\ r.at \in {"delete", "write", "erase"} => r.about = About(r.id, r.row)

\* Where a request that is alone has got to: the row is as it read or wrote it,
\* and so is the definition.
InHand(r) ==
    LET now == services[r.id] IN
    /\ r.at = "update" => now # Gone /\ now.url = r.old /\ r.about = About(r.id, now) \cup About(r.id, r.row)
    /\ r.at \in {"load", "register", "delete", "write", "erase"} => now = r.row
    /\ r.at = "register" => r.tools = Definition(r.row) /\ Loads(r.row, r.tools)
    /\ r.at = "unmount" => now = Gone \/ (now = r.row /\ Definition(now) = Gone)

\* Once it has written, no other service has anything it is about, but a slug
\* that two services share.
Busy(r) == r.at \in {"load", "register", "unmount"}
OwnThings(r) ==
    Busy(r) => \A j \in Ids \ {r.id} : Exists(j) => About(j, services[j]) \cap r.about \subseteq shared

Sound(r) == r.at # "idle" => Knows(r) /\ (Alone(r) => InHand(r) /\ OwnThings(r))
RequestsAreSound == \A k \in Handlers : Sound(req[k])

\* Rows have names of their own, and slugs but for the shared.
RowsAreApart ==
    /\ \A i \in Ids : Exists(i) => i < nextId
    /\ \A i, j \in Ids : i # j /\ Exists(i) /\ Exists(j) =>
           /\ services[i].name # services[j].name
           /\ SlugOf(services[i].url) \cap SlugOf(services[j].url) \subseteq shared

\* A service that nobody has written about since answers as it should.
InStep(i) ==
    \A s \in SlugOf(services[i].url) :
        mounts[s] = IF Loads(services[i], Definition(services[i]))
                    THEN [id |-> i, gate |-> services[i].gate, tools |-> Definition(services[i])]
                    ELSE Gone
Untouched(i) ==
    /\ Exists(i) /\ i \notin behind /\ About(i, services[i]) \cap (crossed \cup shared) = {}
    /\ \A k \in Handlers : Busy(req[k]) => About(i, services[i]) \cap req[k].about = {}
UntouchedAreInStep == \A i \in Ids : Untouched(i) => InStep(i)

\* A mount is its service's, or somebody is about to take it away.
Leaves(r, i, s) ==
    /\ r.id = i
    /\ \/ r.at = "load" /\ r.old # r.row.url /\ s \in SlugOf(r.old)
       \/ r.at = "unmount" /\ s \in SlugOf(r.row.url)
Owned(s) ==
    \/ Exists(mounts[s].id) /\ s \in SlugOf(services[mounts[s].id].url)
    \/ \E k \in Handlers : Leaves(req[k], mounts[s].id, s)
Plain(s) == mounts[s] # Gone /\ {s, mounts[s].id} \cap (crossed \cup shared) = {}
MountsAreOwned == \A s \in Slugs : Plain(s) => Owned(s)

RequestsAreRecords == req \in [Handlers -> Request]
VInv ==
    /\ ServicesTypeOK /\ RequestsAreRecords
    /\ AboutIsApart /\ RequestsAreSound /\ RowsAreApart /\ UntouchedAreInStep /\ MountsAreOwned

-----------------------------------------------------------------------------
(* Requests                                                                *)

\* A request doing nothing is a request like any other.
LEMMA IdleIs ==
    NoRequest \in Request /\ NoRequest.at = "idle" /\ NoRequest.about = {} /\ NoRequest.tools = Gone /\ NoRequest.old = Away
BY ServicesAssumption DEF NoRequest, Request, Urls

\* A step by h that touches no more than what is in T: what others do alone is
\* not in T, and whoever has written is about T.
Within(h, T) ==
    /\ \A k \in Handlers \ {h} : req'[k] = req[k]
    /\ crossed \subseteq crossed' /\ shared \subseteq shared' /\ nextId <= nextId' /\ nextId' \in Nat
    /\ \A j \in Ids \ T : services'[j] = services[j] /\ (j \in behind' <=> j \in behind)
    /\ \A j \in Ids \cap T : services'[j] \in {services[j], Gone} \/ About(j, services'[j]) \subseteq T
    /\ \A d \in Defined, n \in Names : n \notin T => files'[<<d, n>>] = files[<<d, n>>]
    /\ \A s \in Slugs \ T : mounts'[s] = mounts[s]
    /\ \A k \in Handlers \ {h} : req[k].about \subseteq crossed' \/ req[k].about \cap T = {}
    /\ req[h].about \subseteq T \/ ~Busy(req[h])

\* What a request that is alone goes by stays when nothing it is about does
\* change, and when no other service takes what it is about.
LEMMA SoundStays ==
    ASSUME NEW r, Sound(r), crossed \subseteq crossed', shared \subseteq shared',
           nextId \in Nat, nextId' \in Nat, nextId <= nextId',
           ~(r.about \subseteq crossed') =>
               /\ services'[r.id] = services[r.id]
               /\ r.row.kind \in Defined => files'[<<r.row.kind, r.row.name>>] = files[<<r.row.kind, r.row.name>>]
               /\ \A j \in Ids \ {r.id} :
                      services'[j] \in {services[j], Gone} \/ About(j, services'[j]) \cap r.about = {}
    PROVE  Sound(r)'
<1> SUFFICES ASSUME r.at # "idle" PROVE Knows(r)' /\ (Alone(r)' => InHand(r)' /\ OwnThings(r)')
    BY DEF Sound
<1>1. Knows(r) /\ (Alone(r) => InHand(r) /\ OwnThings(r)) BY DEF Sound
<1>2. Knows(r)' BY <1>1 DEF Knows, Ids
<1>3. ASSUME Alone(r)' PROVE InHand(r)' /\ OwnThings(r)'
  <2>1. Alone(r) /\ ~(r.about \subseteq crossed') BY <1>3 DEF Alone
  <2>2. InHand(r) /\ OwnThings(r) BY <1>1, <2>1
  <2>3. Definition(r.row)' = Definition(r.row) BY <2>1 DEF Definition
  <2>4. (r.at = "unmount" => services[r.id] = Gone \/ (services[r.id] = r.row /\ Definition(r.row) = Gone))
        BY <2>2 DEF InHand
  <2>5. (r.at = "unmount" => services'[r.id] = Gone \/ (services'[r.id] = r.row /\ Definition(services[r.id])' = Gone))
        BY <2>1, <2>3, <2>4
  <2>6. InHand(r)' BY <2>1, <2>2, <2>3, <2>5 DEF InHand
  <2>7. OwnThings(r)'
    <3>1. ASSUME Busy(r), NEW j \in Ids \ {r.id}, services'[j] # Gone
          PROVE  About(j, services'[j]) \cap r.about \subseteq shared'
      <4>1. CASE services'[j] = services[j] BY <2>2, <3>1, <4>1 DEF OwnThings, Exists
      <4>2. CASE About(j, services'[j]) \cap r.about = {} BY <4>2
      <4> QED BY <2>1, <3>1, <4>1, <4>2
    <3> QED BY <3>1 DEF OwnThings, Exists
  <2> QED BY <2>6, <2>7
<1> QED BY <1>2, <1>3

\* So the others stay sound.
LEMMA OthersStaySound ==
    ASSUME VInv, NEW h \in Handlers, NEW T, Within(h, T), NEW k \in Handlers \ {h}
    PROVE  Sound(req[k])'
<1>1. PICK r : r = req[k] OBVIOUS
<1>2. req'[k] = r BY <1>1 DEF Within
<1>3. Sound(r) BY <1>1 DEF VInv, RequestsAreSound
<1>4. CASE r.at = "idle" BY <1>2, <1>4 DEF Sound
<1>5. CASE r.at # "idle"
  <2>1. r.id \in Ids /\ r.row \in Row /\ About(r.id, r.row) \subseteq r.about BY <1>3, <1>5 DEF Sound, Knows
  <2>2. r.id \in r.about /\ r.row.name \in r.about /\ r.row.name \in Names
        BY <2>1 DEF About, Ids, Row
  <2>3. ASSUME ~(r.about \subseteq crossed')
        PROVE  /\ services'[r.id] = services[r.id]
               /\ r.row.kind \in Defined => files'[<<r.row.kind, r.row.name>>] = files[<<r.row.kind, r.row.name>>]
               /\ \A j \in Ids \ {r.id} :
                      services'[j] \in {services[j], Gone} \/ About(j, services'[j]) \cap r.about = {}
    <3>1. r.about \cap T = {} BY <1>1, <2>3 DEF Within
    <3> QED BY <2>1, <2>2, <3>1 DEF Within
  <2>4. nextId \in Nat BY ServicesAssumption DEF VInv, ServicesTypeOK
  <2>5. Sound(r)' BY <1>3, <2>3, <2>4, SoundStays DEF Within
  <2> QED BY <1>2, <2>5
<1> QED BY <1>4, <1>5

\* A service that is about nothing in T answers as before.
LEMMA ElsewhereInStep ==
    ASSUME VInv, NEW h \in Handlers, NEW T, Within(h, T), NEW i \in Ids, Untouched(i)',
           About(i, services'[i]) \cap T = {}
    PROVE  InStep(i)'
<1>1. i \in About(i, services'[i]) BY DEF About, Ids
<1>2. i \notin T /\ services'[i] = services[i] BY <1>1 DEF Within
<1>3. PICK row : row = services[i] OBVIOUS
<1>4. row \in Row BY <1>2, <1>3 DEF Untouched, Exists, VInv, ServicesTypeOK
<1>5. About(i, row) \cap (crossed' \cup shared') = {} /\ i \notin behind' BY <1>2, <1>3 DEF Untouched
<1>6. \A k \in Handlers : Busy(req'[k]) => About(i, row) \cap req'[k].about = {}
      BY <1>2, <1>3 DEF Untouched, Busy
<1>7. \A k \in Handlers : Busy(req[k]) => About(i, row) \cap req[k].about = {}
      BY <1>2, <1>3, <1>6 DEF Within
<1>8. Untouched(i)
      BY <1>1, <1>2, <1>3, <1>4, <1>5, <1>7, GoneAssumption DEF Untouched, Exists, Within
<1>9. InStep(i) BY <1>8 DEF VInv, UntouchedAreInStep
<1>10. row.name \notin T /\ SlugOf(row.url) \cap T = {} /\ row.name \in Names
       BY <1>2, <1>3, <1>4 DEF About, Row
<1>11. Definition(row)' = Definition(row) BY <1>10 DEF Definition, Within
<1>12. \A s \in SlugOf(row.url) : mounts'[s] = mounts[s] BY <1>10 DEF Within, SlugOf
<1>13. \A s \in SlugOf(row.url) :
          mounts'[s] = IF Loads(row, Definition(row)')
                       THEN [id |-> i, gate |-> row.gate, tools |-> Definition(row)'] ELSE Gone
       BY <1>3, <1>9, <1>11, <1>12 DEF InStep
<1> QED BY <1>2, <1>3, <1>13 DEF InStep

\* A mount that is not in T is owned as before.
LEMMA ElsewhereOwned ==
    ASSUME VInv, NEW h \in Handlers, NEW T, Within(h, T), T \cap req[h].about = {} => ~Busy(req[h]),
           NEW s \in Slugs, Plain(s)', {s, mounts'[s].id} \cap T = {}
    PROVE  Owned(s)'
<1>1. mounts'[s] = mounts[s] BY DEF Within
<1>2. PICK m : m = mounts[s] OBVIOUS
<1>3. m \in Mounted /\ m.id \in Ids BY <1>1, <1>2 DEF Plain, VInv, ServicesTypeOK, Mounted
<1>4. Plain(s) BY <1>1 DEF Plain, Within
<1>5. Owned(s) BY <1>4 DEF VInv, MountsAreOwned
<1>6. services'[m.id] = services[m.id] BY <1>1, <1>2, <1>3 DEF Within
<1>7. ASSUME NEW k \in Handlers, Leaves(req[k], m.id, s) PROVE Leaves(req'[k], m.id, s)
  <2>1. CASE k = h
    <3>1. Busy(req[h]) /\ req[h].id = m.id /\ req[h].at # "idle" BY <1>7, <2>1 DEF Leaves, Busy
    <3>2. Knows(req[h]) BY <3>1 DEF VInv, RequestsAreSound, Sound
    <3>3. m.id \in req[h].about BY <3>1, <3>2 DEF Knows, About, Ids
    <3> QED BY <1>1, <1>2, <3>1, <3>3 DEF Within
  <2>2. CASE k # h BY <1>7, <2>2 DEF Within
  <2> QED BY <2>1, <2>2
<1> QED BY <1>1, <1>2, <1>5, <1>6, <1>7 DEF Owned, Exists, Leaves

\* A step of a request under way keeps the invariant if it keeps within what the
\* request is about, and leaves that in order.
LEMMA StepInOrder ==
    ASSUME VInv, NEW h \in Handlers, NEW T, T = req[h].about, Within(h, T),
           ServicesTypeOK', req' \in [Handlers -> Request], req'[h].about \subseteq T, Sound(req[h])', RowsAreApart',
           \A i \in Ids : Untouched(i)' /\ About(i, services'[i]) \cap T # {} => InStep(i)',
           \A s \in Slugs : Plain(s)' /\ {s, mounts'[s].id} \cap T # {} => Owned(s)'
    PROVE  VInv'
<1>1. RequestsAreSound' BY OthersStaySound DEF RequestsAreSound
<1>2. AboutIsApart' BY DEF VInv, AboutIsApart, Within
<1>3. UntouchedAreInStep' BY ElsewhereInStep DEF UntouchedAreInStep
<1>4. T \cap req[h].about = {} => ~Busy(req[h])
  <2>1. req[h].at # "idle" => req[h].id \in req[h].about
        BY DEF VInv, RequestsAreSound, Sound, Knows, About, Ids
  <2> QED BY <2>1 DEF Busy
<1>5. MountsAreOwned' BY <1>4, ElsewhereOwned DEF MountsAreOwned
<1> QED BY <1>1, <1>2, <1>3, <1>5 DEF VInv, RequestsAreRecords

\* What a request under way is about, nobody else has, or all of it is crossed.
LEMMA OthersAreElsewhere ==
    ASSUME VInv, NEW h \in Handlers
    PROVE  \A k \in Handlers \ {h} : req[k].about \subseteq crossed \/ req[k].about \cap req[h].about = {}
BY DEF VInv, AboutIsApart

\* What a request that has written is about is crossed, its service's own, or
\* shared.
LEMMA OnlyItsOwn ==
    ASSUME VInv, NEW h \in Handlers, Busy(req[h]), NEW i \in Ids, i # req[h].id, Exists(i),
           About(i, services[i]) \cap (crossed \cup shared) = {}
    PROVE  About(i, services[i]) \cap req[h].about = {}
<1>1. PICK r : r = req[h] OBVIOUS
<1>2. Sound(r) BY <1>1 DEF VInv, RequestsAreSound
<1>3. CASE Alone(r) BY <1>1, <1>2, <1>3 DEF Sound, OwnThings, Busy
<1>4. CASE ~Alone(r) BY <1>1, <1>4 DEF Alone
<1> QED BY <1>3, <1>4

-----------------------------------------------------------------------------
(* The steps of a request under way                                        *)

\* What is known of a request under way, and of the rows it works on.
LEMMA UnderWay ==
    ASSUME VInv, NEW h \in Handlers, NEW r, r = req[h], r.at # "idle"
    PROVE  /\ r \in Request /\ Sound(r) /\ Knows(r)
           /\ r.id \in Ids /\ r.row \in Row /\ r.id \in r.about /\ About(r.id, r.row) \subseteq r.about
           /\ r.row.name \in r.about /\ SlugOf(r.row.url) \subseteq r.about
           /\ r.about \subseteq crossed \/ (InHand(r) /\ OwnThings(r))
<1>1. r \in Request /\ Sound(r) BY DEF VInv, RequestsAreRecords, RequestsAreSound
<1>2. Knows(r) /\ (r.about \subseteq crossed \/ (InHand(r) /\ OwnThings(r))) BY <1>1 DEF Sound, Alone
<1> QED BY <1>1, <1>2 DEF Knows, About, Ids

\* Rows stay apart while they stay as they are.
LEMMA RowsStayApart ==
    ASSUME VInv, services' = services, nextId' = nextId, shared \subseteq shared'
    PROVE  RowsAreApart'
BY DEF VInv, RowsAreApart, Exists

\* A definition that is read is a definition, and one that loads is there.
LEMMA DefinitionIs ==
    ASSUME VInv, NEW row \in Row
    PROVE  /\ Definition(row) \in Contents \cup {Bad, Gone}
           /\ Loads(row, Definition(row)) => Definition(row) \in Contents \cup {Bad}
BY DEF VInv, ServicesTypeOK, Definition, Loads, Keys, Row

\* Mounting begins: the slug left behind is cleared, the definition read.
LEMMA LoadKeeps ==
    ASSUME VInv, NEW h \in Handlers, Load(h)
    PROVE  VInv'
<1>1. PICK r : r = req[h] OBVIOUS
<1>2. r.at = "load" /\ r.at # "idle" BY <1>1 DEF Load
<1>3. /\ r \in Request /\ Sound(r) /\ Knows(r)
      /\ r.id \in Ids /\ r.row \in Row /\ r.id \in r.about /\ About(r.id, r.row) \subseteq r.about
      /\ r.row.name \in r.about /\ SlugOf(r.row.url) \subseteq r.about
      /\ r.about \subseteq crossed \/ (InHand(r) /\ OwnThings(r))
      BY <1>1, <1>2, UnderWay
<1>4. SlugOf(r.old) \subseteq r.about BY <1>2, <1>3 DEF Knows
<1>5. PICK t : t = Definition(r.row) OBVIOUS
<1>6. PICK q : q = IF SlugOf(r.row.url) # {} /\ Loads(r.row, t) THEN [r EXCEPT !.at = "register", !.tools = t] ELSE NoRequest
      OBVIOUS
<1>7. /\ req' = [req EXCEPT ![h] = q]
      /\ behind' = behind \/ (behind' = behind \cup {r.id} /\ q = NoRequest)
      /\ q # NoRequest => SlugOf(r.row.url) # {} /\ Loads(r.row, t) /\ q = [r EXCEPT !.at = "register", !.tools = t]
      /\ q = NoRequest => behind' = behind \cup {r.id}
  <2>1. CASE SlugOf(r.row.url) # {} /\ Loads(r.row, t)
    <3>1. q = [r EXCEPT !.at = "register", !.tools = t] BY <1>6, <2>1
    <3>2. req' = [req EXCEPT ![h].at = "register", ![h].tools = t] /\ behind' = behind
          BY <1>1, <1>5, <2>1 DEF Load
    <3>3. req' = [req EXCEPT ![h] = q] BY <1>1, <3>1, <3>2 DEF VInv, RequestsAreRecords
    <3>4. q.at = "register" /\ NoRequest.at = "idle" BY <1>3, <3>1, IdleIs DEF Request
    <3> QED BY <2>1, <3>1, <3>2, <3>3, <3>4
  <2>2. CASE ~(SlugOf(r.row.url) # {} /\ Loads(r.row, t))
    <3>1. q = NoRequest BY <1>6, <2>2
    <3>2. Ends(h) /\ behind' = behind \cup {r.id} BY <1>1, <1>5, <2>2 DEF Load
    <3> QED BY <3>1, <3>2 DEF Ends
  <2> QED BY <2>1, <2>2
<1>8. /\ UNCHANGED <<services, nextId, files, made, crossed, shared>>
      /\ mounts' = IF r.old # r.row.url THEN Unmounted(r.old) ELSE mounts
      BY <1>1 DEF Load, rows
<1>9. q \in Request /\ (q = NoRequest \/ (q.at = "register" /\ q.id = r.id /\ q.row = r.row /\ q.about = r.about /\ q.tools = t))
  <2>1. t \in Contents \cup {Bad, Gone} BY <1>3, <1>5, DefinitionIs
  <2> QED BY <1>3, <1>7, <2>1, IdleIs DEF Request
<1>10. req' \in [Handlers -> Request] /\ req'[h] = q /\ \A k \in Handlers \ {h} : req'[k] = req[k]
       BY <1>7, <1>9 DEF VInv, RequestsAreRecords
<1>11. PICK T : T = r.about OBVIOUS
<1>12. \A s \in Slugs : mounts'[s] = IF r.old # r.row.url /\ s \in SlugOf(r.old) THEN Gone ELSE mounts[s]
       BY <1>8 DEF Unmounted, VInv, ServicesTypeOK
<1>13. Within(h, T)
  <2>1. nextId \in Nat BY ServicesAssumption DEF VInv, ServicesTypeOK
  <2>2. \A j \in Ids \ T : j \in behind' <=> j \in behind BY <1>3, <1>7, <1>11
  <2>3. \A s \in Slugs \ T : mounts'[s] = mounts[s] BY <1>4, <1>11, <1>12
  <2>4. \A k \in Handlers \ {h} : req[k].about \subseteq crossed' \/ req[k].about \cap T = {}
        BY <1>1, <1>8, <1>11, OthersAreElsewhere
  <2> QED BY <1>1, <1>8, <1>10, <1>11, <2>1, <2>2, <2>3, <2>4 DEF Within
<1>14. ServicesTypeOK'
  <2>1. mounts' \in [Slugs -> Mounted \cup {Gone}] BY <1>8 DEF Unmounted, VInv, ServicesTypeOK
  <2>2. behind' \subseteq Ids BY <1>3, <1>7 DEF VInv, ServicesTypeOK
  <2> QED BY <1>8, <1>10, <2>1, <2>2 DEF VInv, ServicesTypeOK
<1>15. req'[h].about \subseteq T BY <1>9, <1>10, <1>11, IdleIs
<1>16. Sound(req[h])'
  <2>1. CASE q = NoRequest BY <1>10, <2>1, IdleIs DEF Sound
  <2>2. CASE q # NoRequest
    <3>1. q.at = "register" /\ q.id = r.id /\ q.row = r.row /\ q.about = r.about /\ q.tools = t BY <1>9, <2>2
    <3>2. t # Gone /\ Loads(r.row, t) BY <1>7, <2>2 DEF Loads
    <3>3. Knows(q)' BY <1>3, <1>8, <3>1, <3>2 DEF Knows
    <3>4. ASSUME Alone(q)' PROVE InHand(q)' /\ OwnThings(q)'
      <4>1. InHand(r) /\ OwnThings(r) BY <1>3, <1>8, <3>1, <3>4 DEF Alone
      <4>2. services[r.id] = r.row BY <1>2, <4>1 DEF InHand
      <4>3. Definition(r.row)' = t BY <1>5, <1>8 DEF Definition
      <4>4. InHand(q)' BY <1>8, <3>1, <3>2, <4>2, <4>3 DEF InHand
      <4>5. OwnThings(q)' BY <1>2, <1>8, <3>1, <4>1 DEF OwnThings, Busy, Exists
      <4> QED BY <4>4, <4>5
    <3>5. Sound(q)' BY <3>3, <3>4 DEF Sound
    <3> QED BY <1>10, <3>5
  <2> QED BY <2>1, <2>2
<1>17. RowsAreApart' BY <1>8, RowsStayApart
<1>18. ASSUME NEW i \in Ids, Untouched(i)', About(i, services'[i]) \cap T # {} PROVE InStep(i)'
  <2>1. Exists(i) /\ About(i, services[i]) \cap (crossed \cup shared) = {} /\ i \notin behind'
        BY <1>8, <1>18 DEF Untouched, Exists
  <2>2. i # r.id \/ q # NoRequest BY <1>7, <2>1
  <2>3. CASE q # NoRequest
    <3>1. Busy(req'[h]) /\ req'[h].about = T BY <1>9, <1>10, <1>11, <2>3 DEF Busy
    <3> QED BY <1>18, <3>1 DEF Untouched, Busy
  <2>4. CASE i # r.id
    <3>1. Busy(req[h]) BY <1>1, <1>2 DEF Busy
    <3> QED BY <1>1, <1>8, <1>11, <1>18, <2>1, <2>4, <3>1, OnlyItsOwn
  <2> QED BY <2>2, <2>3, <2>4
<1>19. ASSUME NEW s \in Slugs, Plain(s)', {s, mounts'[s].id} \cap T # {} PROVE Owned(s)'
  <2>1. mounts'[s] = mounts[s] /\ ~(r.old # r.row.url /\ s \in SlugOf(r.old)) BY <1>12, <1>19 DEF Plain
  <2>2. Owned(s)
    <3>1. Plain(s) BY <1>8, <1>19, <2>1 DEF Plain
    <3> QED BY <3>1 DEF VInv, MountsAreOwned
  <2>3. ~Leaves(req[h], mounts[s].id, s) BY <1>1, <1>2, <2>1 DEF Leaves
  <2>4. \A k \in Handlers : Leaves(req[k], mounts[s].id, s) => Leaves(req'[k], mounts[s].id, s) BY <1>10, <2>3
  <2> QED BY <1>8, <2>1, <2>2, <2>4 DEF Owned, Exists, Leaves
<1> QED BY <1>1, <1>10, <1>11, <1>13, <1>14, <1>15, <1>16, <1>17, <1>18, <1>19, StepInOrder

\* The mount is made: whatever is at the slug is replaced.
LEMMA RegisterKeeps ==
    ASSUME VInv, NEW h \in Handlers, Register(h)
    PROVE  VInv'
<1>1. PICK r : r = req[h] OBVIOUS
<1>2. r.at = "register" /\ r.at # "idle" BY <1>1 DEF Register
<1>3. /\ r \in Request /\ Sound(r) /\ Knows(r)
      /\ r.id \in Ids /\ r.row \in Row /\ r.id \in r.about /\ About(r.id, r.row) \subseteq r.about
      /\ r.row.name \in r.about /\ SlugOf(r.row.url) \subseteq r.about
      /\ r.about \subseteq crossed \/ (InHand(r) /\ OwnThings(r))
      BY <1>1, <1>2, UnderWay
<1>4. r.tools \in Contents \cup {Bad} BY <1>2, <1>3 DEF Knows, Request
<1>5. PICK m : m = [id |-> r.id, gate |-> r.row.gate, tools |-> r.tools] OBVIOUS
<1>6. m \in Mounted /\ m.id = r.id BY <1>3, <1>4, <1>5 DEF Mounted, Row
<1>7. /\ UNCHANGED <<services, nextId, files, made, crossed, shared>>
      /\ behind' = behind \ {r.id} /\ req' = [req EXCEPT ![h] = NoRequest]
      /\ mounts' = [s \in Slugs |-> IF s \in SlugOf(r.row.url) THEN m ELSE mounts[s]]
      BY <1>1, <1>5 DEF Register, Ends, rows
<1>8. req' \in [Handlers -> Request] /\ req'[h] = NoRequest /\ \A k \in Handlers \ {h} : req'[k] = req[k]
      BY <1>7, IdleIs DEF VInv, RequestsAreRecords
<1>9. PICK T : T = r.about OBVIOUS
<1>10. \A s \in Slugs : mounts'[s] = IF s \in SlugOf(r.row.url) THEN m ELSE mounts[s] BY <1>7
<1>11. Within(h, T)
  <2>1. nextId \in Nat BY ServicesAssumption DEF VInv, ServicesTypeOK
  <2>2. \A j \in Ids \ T : j \in behind' <=> j \in behind BY <1>3, <1>7, <1>9
  <2>3. \A s \in Slugs \ T : mounts'[s] = mounts[s] BY <1>3, <1>9, <1>10
  <2>4. \A k \in Handlers \ {h} : req[k].about \subseteq crossed' \/ req[k].about \cap T = {}
        BY <1>1, <1>7, <1>9, OthersAreElsewhere
  <2> QED BY <1>1, <1>7, <1>8, <1>9, <2>1, <2>2, <2>3, <2>4 DEF Within
<1>12. ServicesTypeOK'
  <2>1. mounts' \in [Slugs -> Mounted \cup {Gone}] BY <1>6, <1>7 DEF VInv, ServicesTypeOK
  <2>2. behind' \subseteq Ids BY <1>7 DEF VInv, ServicesTypeOK
  <2> QED BY <1>7, <1>8, <2>1, <2>2 DEF VInv, ServicesTypeOK
<1>13. req'[h].about \subseteq T BY <1>8, IdleIs
<1>14. Sound(req[h])' BY <1>8, IdleIs DEF Sound
<1>15. RowsAreApart' BY <1>7, RowsStayApart
<1>16. r.id \notin crossed => InHand(r) BY <1>3
<1>17. ASSUME NEW i \in Ids, Untouched(i)', About(i, services'[i]) \cap T # {} PROVE InStep(i)'
  <2>1. Exists(i) /\ About(i, services[i]) \cap (crossed \cup shared) = {} BY <1>7, <1>17 DEF Untouched, Exists
  <2>2. i = r.id
    <3>1. Busy(req[h]) BY <1>1, <1>2 DEF Busy
    <3> QED BY <1>1, <1>7, <1>9, <1>17, <2>1, <3>1, OnlyItsOwn
  <2>3. i \notin crossed BY <2>1 DEF About, Ids
  <2>4. services[i] = r.row /\ r.tools = Definition(r.row) /\ Loads(r.row, r.tools)
        BY <1>2, <1>16, <2>2, <2>3 DEF InHand
  <2>5. Definition(r.row)' = Definition(r.row) BY <1>7 DEF Definition
  <2>6. SlugOf(r.row.url) \subseteq Slugs BY DEF SlugOf
  <2> QED BY <1>5, <1>7, <1>10, <2>2, <2>4, <2>5, <2>6 DEF InStep
<1>18. ASSUME NEW s \in Slugs, Plain(s)', {s, mounts'[s].id} \cap T # {} PROVE Owned(s)'
  <2>1. CASE s \in SlugOf(r.row.url)
    <3>1. mounts'[s] = m BY <1>10, <2>1
    <3>2. r.id \notin crossed BY <1>6, <1>7, <1>18, <3>1 DEF Plain
    <3>3. services[r.id] = r.row BY <1>2, <1>16, <3>2 DEF InHand
    <3> QED BY <1>3, <1>6, <1>7, <2>1, <3>1, <3>3, GoneAssumption DEF Owned, Exists
  <2>2. CASE s \notin SlugOf(r.row.url)
    <3>1. mounts'[s] = mounts[s] BY <1>10, <2>2
    <3>2. Plain(s) BY <1>7, <1>18, <3>1 DEF Plain
    <3>3. Owned(s) BY <3>2 DEF VInv, MountsAreOwned
    <3>4. ~Leaves(req[h], mounts[s].id, s) BY <1>1, <1>2 DEF Leaves
    <3>5. \A k \in Handlers : Leaves(req[k], mounts[s].id, s) => Leaves(req'[k], mounts[s].id, s) BY <1>8, <3>4
    <3> QED BY <1>7, <3>1, <3>3, <3>5 DEF Owned, Exists, Leaves
  <2> QED BY <2>1, <2>2
<1> QED BY <1>1, <1>8, <1>9, <1>11, <1>12, <1>13, <1>14, <1>15, <1>17, <1>18, StepInOrder

\* The mount of a service deleted, or without its definition, is taken away.
LEMMA UnmountKeeps ==
    ASSUME VInv, NEW h \in Handlers, Unmount(h)
    PROVE  VInv'
<1>1. PICK r : r = req[h] OBVIOUS
<1>2. r.at = "unmount" /\ r.at # "idle" BY <1>1 DEF Unmount
<1>3. /\ r \in Request /\ Sound(r) /\ Knows(r)
      /\ r.id \in Ids /\ r.row \in Row /\ r.id \in r.about /\ About(r.id, r.row) \subseteq r.about
      /\ r.row.name \in r.about /\ SlugOf(r.row.url) \subseteq r.about
      /\ r.about \subseteq crossed \/ (InHand(r) /\ OwnThings(r))
      BY <1>1, <1>2, UnderWay
<1>7. /\ UNCHANGED <<services, nextId, files, made, crossed, shared>>
      /\ behind' = behind \ {r.id} /\ req' = [req EXCEPT ![h] = NoRequest]
      /\ mounts' = [s \in Slugs |-> IF s \in SlugOf(r.row.url) THEN Gone ELSE mounts[s]]
      BY <1>1 DEF Unmount, Ends, rows, Unmounted
<1>8. req' \in [Handlers -> Request] /\ req'[h] = NoRequest /\ \A k \in Handlers \ {h} : req'[k] = req[k]
      BY <1>7, IdleIs DEF VInv, RequestsAreRecords
<1>9. PICK T : T = r.about OBVIOUS
<1>10. \A s \in Slugs : mounts'[s] = IF s \in SlugOf(r.row.url) THEN Gone ELSE mounts[s] BY <1>7
<1>11. Within(h, T)
  <2>1. nextId \in Nat BY ServicesAssumption DEF VInv, ServicesTypeOK
  <2>2. \A j \in Ids \ T : j \in behind' <=> j \in behind BY <1>3, <1>7, <1>9
  <2>3. \A s \in Slugs \ T : mounts'[s] = mounts[s] BY <1>3, <1>9, <1>10
  <2>4. \A k \in Handlers \ {h} : req[k].about \subseteq crossed' \/ req[k].about \cap T = {}
        BY <1>1, <1>7, <1>9, OthersAreElsewhere
  <2> QED BY <1>1, <1>7, <1>8, <1>9, <2>1, <2>2, <2>3, <2>4 DEF Within
<1>12. ServicesTypeOK'
  <2>1. mounts' \in [Slugs -> Mounted \cup {Gone}] BY <1>7 DEF VInv, ServicesTypeOK
  <2>2. behind' \subseteq Ids BY <1>7 DEF VInv, ServicesTypeOK
  <2> QED BY <1>7, <1>8, <2>1, <2>2 DEF VInv, ServicesTypeOK
<1>13. req'[h].about \subseteq T BY <1>8, IdleIs
<1>14. Sound(req[h])' BY <1>8, IdleIs DEF Sound
<1>15. RowsAreApart' BY <1>7, RowsStayApart
<1>17. ASSUME NEW i \in Ids, Untouched(i)', About(i, services'[i]) \cap T # {} PROVE InStep(i)'
  <2>1. Exists(i) /\ About(i, services[i]) \cap (crossed \cup shared) = {} BY <1>7, <1>17 DEF Untouched, Exists
  <2>2. i = r.id
    <3>1. Busy(req[h]) BY <1>1, <1>2 DEF Busy
    <3> QED BY <1>1, <1>7, <1>9, <1>17, <2>1, <3>1, OnlyItsOwn
  <2>3. i \notin crossed BY <2>1 DEF About, Ids
  <2>4. services[i] = r.row /\ Definition(r.row) = Gone BY <1>2, <1>3, <2>1, <2>2, <2>3 DEF InHand, Exists
  <2>5. Definition(r.row)' = Gone BY <1>7, <2>4 DEF Definition
  <2>6. SlugOf(r.row.url) \subseteq Slugs BY DEF SlugOf
  <2> QED BY <1>7, <1>10, <2>2, <2>4, <2>5, <2>6 DEF InStep, Loads
<1>18. ASSUME NEW s \in Slugs, Plain(s)', {s, mounts'[s].id} \cap T # {} PROVE Owned(s)'
  <2>1. s \notin SlugOf(r.row.url) /\ mounts'[s] = mounts[s] BY <1>10, <1>18 DEF Plain
  <2>2. Plain(s) BY <1>7, <1>18, <2>1 DEF Plain
  <2>3. Owned(s) BY <2>2 DEF VInv, MountsAreOwned
  <2>4. ~Leaves(req[h], mounts[s].id, s) BY <1>1, <1>2, <2>1 DEF Leaves
  <2>5. \A k \in Handlers : Leaves(req[k], mounts[s].id, s) => Leaves(req'[k], mounts[s].id, s) BY <1>8, <2>4
  <2> QED BY <1>7, <2>1, <2>3, <2>5 DEF Owned, Exists, Leaves
<1> QED BY <1>1, <1>8, <1>9, <1>11, <1>12, <1>13, <1>14, <1>15, <1>17, <1>18, StepInOrder

\* Two rows with names of their own have at most slugs in common.
LEMMA AboutMeet ==
    ASSUME NEW i \in Ids, NEW j \in Ids, i # j, NEW a \in Row, NEW b \in Row, a.name # b.name
    PROVE  About(i, a) \cap About(j, b) \subseteq SlugOf(a.url) \cap SlugOf(b.url)
<1>1. a.name \in Names /\ b.name \in Names BY DEF Row
<1>2. SlugOf(a.url) \subseteq Slugs /\ SlugOf(b.url) \subseteq Slugs BY DEF SlugOf
<1>3. \A x \in About(i, a) : x = i \/ x = a.name \/ x \in SlugOf(a.url) BY DEF About
<1>4. \A x \in About(j, b) : x = j \/ x = b.name \/ x \in SlugOf(b.url) BY DEF About
<1>5. Names \cap Slugs = {} /\ (Names \cup Slugs) \cap Ids = {} BY ServicesAssumption DEF Ids
<1> QED BY <1>1, <1>2, <1>3, <1>4, <1>5

\* A slug of two services is shared.
LEMMA SharesIs ==
    ASSUME Shares, shared \subseteq Slugs, services' \in [Ids -> Row \cup {Gone}]
    PROVE  /\ shared \subseteq shared' /\ shared' \subseteq Slugs
           /\ \A i, j \in Ids : i # j /\ services'[i] # Gone /\ services'[j] # Gone =>
                  SlugOf(services'[i].url) \cap SlugOf(services'[j].url) \subseteq shared'
<1>1. shared' = shared \cup {s \in Slugs : Cardinality({i \in Ids : services'[i] # Gone /\ s \in SlugOf(services'[i].url)}) > 1}
      BY DEF Shares
<1>2. ASSUME NEW i \in Ids, NEW j \in Ids, i # j, services'[i] # Gone, services'[j] # Gone,
             NEW s \in SlugOf(services'[i].url) \cap SlugOf(services'[j].url)
      PROVE  s \in shared'
  <2>1. PICK D : D = {k \in Ids : services'[k] # Gone /\ s \in SlugOf(services'[k].url)} OBVIOUS
  <2>2. IsFiniteSet(Ids) BY ServicesAssumption, FS_Interval DEF Ids
  <2>3. D \subseteq Ids /\ {i, j} \subseteq D BY <1>2, <2>1
  <2>4. IsFiniteSet(D) BY <2>2, <2>3, FS_Subset
  <2>5. Cardinality({i, j}) <= Cardinality(D) BY <2>3, <2>4, FS_Subset
  <2>6. Cardinality({i, j}) = 2
    <3>1. IsFiniteSet({i}) /\ Cardinality({i}) = 1 BY FS_Singleton
    <3>2. Cardinality({i} \cup {j}) = 1 + 1 BY <1>2, <3>1, FS_AddElement
    <3>3. {i, j} = {i} \cup {j} OBVIOUS
    <3> QED BY <3>2, <3>3
  <2>7. Cardinality(D) > 1 BY <2>4, <2>5, <2>6, FS_CardinalityType
  <2>8. s \in Slugs BY <1>2 DEF SlugOf
  <2> QED BY <1>1, <2>1, <2>7, <2>8
<1> QED BY <1>1, <1>2

\* A request's write to the rows or the files: its service is in nobody's step
\* until it is mounted.
LEMMA WriteInOrder ==
    ASSUME VInv, NEW h \in Handlers, NEW T, T = req[h].about, Within(h, T),
           ServicesTypeOK', req' \in [Handlers -> Request], req'[h].about = T, Busy(req'[h]), Sound(req[h])', RowsAreApart',
           mounts' = mounts, ~Busy(req[h]), req[h].id \in T,
           \A s \in Slugs : /\ Plain(s)' /\ mounts[s].id = req[h].id
                            /\ services[req[h].id] # Gone /\ s \in SlugOf(services[req[h].id].url)
                            => \/ services'[req[h].id] # Gone /\ s \in SlugOf(services'[req[h].id].url)
                               \/ Leaves(req'[h], req[h].id, s),
           \A j \in Ids \ {req[h].id} : services'[j] = services[j]
    PROVE  VInv'
<1>1. ASSUME NEW i \in Ids, Untouched(i)', About(i, services'[i]) \cap T # {} PROVE InStep(i)'
      BY <1>1 DEF Untouched, Busy
<1>2. ASSUME NEW s \in Slugs, Plain(s)' PROVE Owned(s)'
  <2>1. Plain(s) BY <1>2 DEF Plain, Within
  <2>2. Owned(s) /\ mounts[s].id \in Ids BY <2>1 DEF VInv, MountsAreOwned, ServicesTypeOK, Plain, Mounted
  <2>3. ASSUME NEW k \in Handlers, Leaves(req[k], mounts[s].id, s) PROVE Owned(s)'
    <3>1. k # h BY <2>3 DEF Leaves, Busy
    <3>2. Leaves(req'[k], mounts'[s].id, s) BY <2>3, <3>1 DEF Within
    <3> QED BY <3>2 DEF Owned, Leaves
  <2>4. ASSUME Exists(mounts[s].id), s \in SlugOf(services[mounts[s].id].url) PROVE Owned(s)'
    <3>1. CASE mounts[s].id = req[h].id
      <4>1. CASE services'[req[h].id] # Gone /\ s \in SlugOf(services'[req[h].id].url)
            BY <3>1, <4>1 DEF Owned, Exists
      <4>2. CASE Leaves(req'[h], req[h].id, s) BY <3>1, <4>2 DEF Owned, Leaves
      <4> QED BY <1>2, <2>4, <3>1, <4>1, <4>2 DEF Exists
    <3>2. CASE mounts[s].id # req[h].id BY <2>2, <2>4, <3>2 DEF Owned, Exists
    <3> QED BY <3>1, <3>2
  <2> QED BY <2>2, <2>3, <2>4 DEF Owned
<1> QED BY <1>1, <1>2, StepInOrder

\* A request that has not written has no one else's things, unless shared.
LEMMA NobodyElses ==
    ASSUME VInv, NEW row \in Row, NEW i \in Ids, services[i] = row, NEW j \in Ids \ {i}, Exists(j)
    PROVE  About(j, services[j]) \cap About(i, row) \subseteq shared
<1>1. services[j] \in Row BY DEF VInv, ServicesTypeOK, Exists
<1>2. Exists(i) BY GoneAssumption DEF Exists
<1>3. services[j].name # row.name /\ SlugOf(services[j].url) \cap SlugOf(row.url) \subseteq shared
      BY <1>2 DEF VInv, RowsAreApart
<1> QED BY <1>1, <1>3, AboutMeet

\* A service deleted has no mount of its own to keep.
LEMMA DeleteServiceKeeps ==
    ASSUME VInv, NEW h \in Handlers, DeleteService(h)
    PROVE  VInv'
<1>1. PICK r : r = req[h] OBVIOUS
<1>2. r.at = "delete" /\ r.at # "idle" BY <1>1 DEF DeleteService
<1>3. /\ r \in Request /\ Sound(r) /\ Knows(r)
      /\ r.id \in Ids /\ r.row \in Row /\ r.id \in r.about /\ About(r.id, r.row) \subseteq r.about
      /\ r.row.name \in r.about /\ SlugOf(r.row.url) \subseteq r.about
      /\ r.about \subseteq crossed \/ (InHand(r) /\ OwnThings(r))
      BY <1>1, <1>2, UnderWay
<1>4. PICK q : q = [r EXCEPT !.at = "unmount"] OBVIOUS
<1>5. q \in Request /\ q.at = "unmount" /\ q.id = r.id /\ q.row = r.row /\ q.about = r.about
      BY <1>3, <1>4 DEF Request
<1>6. /\ UNCHANGED <<nextId, files, mounts, made, crossed, behind, shared>>
      /\ services' = [services EXCEPT ![r.id] = Gone] /\ req' = [req EXCEPT ![h] = q]
      BY <1>1, <1>4 DEF DeleteService, Goes, history, VInv, RequestsAreRecords
<1>7. req' \in [Handlers -> Request] /\ req'[h] = q /\ \A k \in Handlers \ {h} : req'[k] = req[k]
      BY <1>5, <1>6 DEF VInv, RequestsAreRecords
<1>8. PICK T : T = r.about OBVIOUS
<1>9. /\ services' \in [Ids -> Row \cup {Gone}] /\ services'[r.id] = Gone
      /\ \A j \in Ids \ {r.id} : services'[j] = services[j]
      BY <1>3, <1>6 DEF VInv, ServicesTypeOK
<1>10. Within(h, T)
  <2>1. nextId \in Nat BY ServicesAssumption DEF VInv, ServicesTypeOK
  <2>2. \A k \in Handlers \ {h} : req[k].about \subseteq crossed' \/ req[k].about \cap T = {}
        BY <1>1, <1>6, <1>8, OthersAreElsewhere
  <2>3. \A j \in Ids : services'[j] \in {services[j], Gone} /\ (j \notin T => services'[j] = services[j])
        BY <1>3, <1>8, <1>9
  <2> QED BY <1>1, <1>6, <1>7, <1>8, <2>1, <2>2, <2>3 DEF Within
<1>11. ServicesTypeOK' BY <1>6, <1>7, <1>9 DEF VInv, ServicesTypeOK
<1>12. Sound(req[h])'
  <2>1. Knows(q)' BY <1>2, <1>3, <1>5, <1>6 DEF Knows
  <2>2. InHand(q)' BY <1>5, <1>9 DEF InHand
  <2>3. ASSUME Alone(q)' PROVE OwnThings(q)'
    <3>1. InHand(r) BY <1>3, <1>5, <1>6, <2>3 DEF Alone
    <3>2. services[r.id] = r.row /\ r.about = About(r.id, r.row) BY <1>2, <1>3, <3>1 DEF InHand, Knows
    <3>3. \A j \in Ids \ {r.id} : Exists(j) => About(j, services[j]) \cap r.about \subseteq shared
          BY <1>3, <3>2, NobodyElses
    <3> QED BY <1>5, <1>6, <1>9, <3>3 DEF OwnThings, Exists
  <2> QED BY <1>7, <2>1, <2>2, <2>3 DEF Sound
<1>13. RowsAreApart' BY <1>6, <1>9 DEF VInv, RowsAreApart, Exists
<1>14. ASSUME NEW s \in Slugs, Plain(s)', mounts[s].id = r.id, services[r.id] # Gone, s \in SlugOf(services[r.id].url)
       PROVE  Leaves(q, r.id, s)
  <2>1. r.id \notin crossed BY <1>6, <1>14 DEF Plain
  <2>2. services[r.id] = r.row BY <1>2, <1>3, <2>1 DEF InHand
  <2> QED BY <1>5, <1>14, <2>2 DEF Leaves
<1>15. Busy(q) /\ ~Busy(r) BY <1>2, <1>5 DEF Busy
<1> QED BY <1>1, <1>3, <1>5, <1>6, <1>7, <1>8, <1>9, <1>10, <1>11, <1>12, <1>13, <1>14, <1>15, WriteInOrder

\* A definition is written, or erased: the service as it was read is mounted anew,
\* or its mount taken away.
LEMMA FileKeeps ==
    ASSUME VInv, NEW h \in Handlers, WriteFile(h) \/ EraseFile(h)
    PROVE  VInv'
<1>1. PICK r : r = req[h] OBVIOUS
<1>2. r.at \in {"write", "erase"} /\ r.at # "idle" BY <1>1 DEF WriteFile, EraseFile
<1>3. /\ r \in Request /\ Sound(r) /\ Knows(r)
      /\ r.id \in Ids /\ r.row \in Row /\ r.id \in r.about /\ About(r.id, r.row) \subseteq r.about
      /\ r.row.name \in r.about /\ SlugOf(r.row.url) \subseteq r.about
      /\ r.about \subseteq crossed \/ (InHand(r) /\ OwnThings(r))
      BY <1>1, <1>2, UnderWay
<1>4. PICK w : w = IF r.at = "write" THEN r.tools ELSE Gone OBVIOUS
<1>5. PICK q : /\ q \in Request /\ q.id = r.id /\ q.row = r.row /\ q.about = r.about /\ q.old = r.old
               /\ req' = [req EXCEPT ![h] = q]
               /\ (r.at = "write" /\ q.at = "load") \/ (r.at = "erase" /\ q.at = "unmount" /\ w = Gone)
  <2>1. CASE WriteFile(h)
    <3>1. PICK q : q = [r EXCEPT !.at = "load", !.tools = Gone] OBVIOUS
    <3>2. q \in Request /\ q.at = "load" /\ q.id = r.id /\ q.row = r.row /\ q.about = r.about /\ q.old = r.old
          BY <1>3, <3>1 DEF Request
    <3>3. r.at = "write" /\ req' = [req EXCEPT ![h].at = "load", ![h].tools = Gone]
          BY <1>1, <2>1 DEF WriteFile
    <3>4. req' = [req EXCEPT ![h] = q] BY <1>1, <3>1, <3>3 DEF VInv, RequestsAreRecords
    <3> QED BY <3>2, <3>3, <3>4
  <2>2. CASE EraseFile(h)
    <3>1. PICK q : q = [r EXCEPT !.at = "unmount"] OBVIOUS
    <3>2. q \in Request /\ q.at = "unmount" /\ q.id = r.id /\ q.row = r.row /\ q.about = r.about /\ q.old = r.old
          BY <1>3, <3>1 DEF Request
    <3>3. r.at = "erase" /\ req' = [req EXCEPT ![h] = q]
          BY <1>1, <2>2, <3>1 DEF EraseFile, Goes, VInv, RequestsAreRecords
    <3> QED BY <1>4, <3>2, <3>3
  <2> QED BY <2>1, <2>2
<1>6. /\ UNCHANGED <<services, nextId, mounts, made, crossed, behind, shared>>
      /\ files' = [files EXCEPT ![<<r.row.kind, r.row.name>>] = w]
      BY <1>1, <1>4 DEF WriteFile, EraseFile, history, rows
<1>7. req' \in [Handlers -> Request] /\ req'[h] = q /\ \A k \in Handlers \ {h} : req'[k] = req[k]
      BY <1>5 DEF VInv, RequestsAreRecords
<1>8. PICK T : T = r.about OBVIOUS
<1>9. PICK p : p = <<r.row.kind, r.row.name>> OBVIOUS
<1>10. p \in Keys /\ r.row.kind \in Defined BY <1>2, <1>3, <1>9 DEF Knows, Keys, Row
<1>11. w \in Contents \cup {Bad, Gone} BY <1>3, <1>4 DEF Request
<1>12. files' \in [Keys -> Contents \cup {Bad, Gone}] /\ files'[p] = w /\ \A k \in Keys \ {p} : files'[k] = files[k]
       BY <1>6, <1>9, <1>10, <1>11 DEF VInv, ServicesTypeOK
<1>13. Within(h, T)
  <2>1. nextId \in Nat BY ServicesAssumption DEF VInv, ServicesTypeOK
  <2>2. \A k \in Handlers \ {h} : req[k].about \subseteq crossed' \/ req[k].about \cap T = {}
        BY <1>1, <1>6, <1>8, OthersAreElsewhere
  <2>3. ASSUME NEW d \in Defined, NEW n \in Names, n \notin T PROVE files'[<<d, n>>] = files[<<d, n>>]
    <3>1. <<d, n>> \in Keys BY DEF Keys
    <3>2. n # r.row.name BY <1>3, <1>8, <2>3
    <3>3. <<d, n>> # p BY <1>9, <3>2
    <3> QED BY <1>12, <3>1, <3>3
  <2> QED BY <1>1, <1>6, <1>7, <1>8, <2>1, <2>2, <2>3 DEF Within
<1>14. ServicesTypeOK' BY <1>6, <1>7, <1>12 DEF VInv, ServicesTypeOK
<1>15. Sound(req[h])'
  <2>1. r.at = "write" => r.old = r.row.url BY <1>3 DEF Knows
  <2>2. Knows(q)' BY <1>3, <1>5, <1>6, <2>1 DEF Knows
  <2>3. ASSUME Alone(q)' PROVE InHand(q)' /\ OwnThings(q)'
    <3>1. InHand(r) BY <1>3, <1>5, <1>6, <2>3 DEF Alone
    <3>2. services[r.id] = r.row /\ r.about = About(r.id, r.row) BY <1>2, <1>3, <3>1 DEF InHand, Knows
    <3>3. \A j \in Ids \ {r.id} : Exists(j) => About(j, services[j]) \cap r.about \subseteq shared
          BY <1>3, <3>2, NobodyElses
    <3>4. r.at = "erase" => Definition(r.row)' = Gone BY <1>5, <1>9, <1>10, <1>12 DEF Definition
    <3>5. services'[q.id] = q.row /\ (q.at = "unmount" => Definition(services[q.id])' = Gone)
          BY <1>5, <1>6, <3>2, <3>4
    <3>6. InHand(q)' BY <1>5, <3>5 DEF InHand
    <3>7. OwnThings(q)' BY <1>5, <1>6, <3>3 DEF OwnThings, Exists
    <3> QED BY <3>6, <3>7
  <2> QED BY <1>7, <2>2, <2>3 DEF Sound
<1>16. RowsAreApart' BY <1>6, RowsStayApart
<1>17. Busy(q) /\ ~Busy(r) BY <1>2, <1>5 DEF Busy
<1> QED BY <1>1, <1>3, <1>5, <1>6, <1>7, <1>8, <1>13, <1>14, <1>15, <1>16, <1>17, WriteInOrder

\* A row is written, or refused for a name or a URL that another service has.
LEMMA UpdateServiceKeeps ==
    ASSUME VInv, NEW h \in Handlers, UpdateService(h)
    PROVE  VInv'
<1>1. PICK r : r = req[h] OBVIOUS
<1>2. r.at = "update" /\ r.at # "idle" BY <1>1 DEF UpdateService
<1>3. /\ r \in Request /\ Sound(r) /\ Knows(r)
      /\ r.id \in Ids /\ r.row \in Row /\ r.id \in r.about /\ About(r.id, r.row) \subseteq r.about
      /\ r.row.name \in r.about /\ SlugOf(r.row.url) \subseteq r.about
      /\ r.about \subseteq crossed \/ (InHand(r) /\ OwnThings(r))
      BY <1>1, <1>2, UnderWay
<1>4. SlugOf(r.old) \subseteq r.about BY <1>2, <1>3 DEF Knows
<1>5. PICK new : new = IF services[r.id] = Gone THEN Gone ELSE r.row OBVIOUS
<1>6. /\ UNCHANGED <<nextId, files, mounts, made, crossed, behind>> /\ Shares
      BY DEF UpdateService
<1>7. PICK T : T = r.about OBVIOUS
<1>8. shared \subseteq Slugs /\ nextId \in Nat BY ServicesAssumption DEF VInv, ServicesTypeOK
<1>9. \A k \in Handlers \ {h} : req[k].about \subseteq crossed' \/ req[k].about \cap T = {}
      BY <1>1, <1>6, <1>7, OthersAreElsewhere
<1>10. CASE Unique(r.id, r.row)
  <2>1. PICK q : q = [r EXCEPT !.at = "load"] OBVIOUS
  <2>2. q \in Request /\ q.at = "load" /\ q.id = r.id /\ q.row = r.row /\ q.about = r.about /\ q.old = r.old
        BY <1>3, <2>1 DEF Request
  <2>3. services' = [services EXCEPT ![r.id] = new] /\ req' = [req EXCEPT ![h] = q]
        BY <1>1, <1>5, <1>10, <2>1 DEF UpdateService, Goes, VInv, RequestsAreRecords
  <2>4. req' \in [Handlers -> Request] /\ req'[h] = q /\ \A k \in Handlers \ {h} : req'[k] = req[k]
        BY <2>2, <2>3 DEF VInv, RequestsAreRecords
  <2>5. /\ services' \in [Ids -> Row \cup {Gone}] /\ services'[r.id] = new
        /\ \A j \in Ids \ {r.id} : services'[j] = services[j]
        BY <1>3, <1>5, <2>3 DEF VInv, ServicesTypeOK
  <2>6. /\ shared \subseteq shared' /\ shared' \subseteq Slugs
        /\ \A i, j \in Ids : i # j /\ services'[i] # Gone /\ services'[j] # Gone =>
              SlugOf(services'[i].url) \cap SlugOf(services'[j].url) \subseteq shared'
        BY <1>6, <1>8, <2>5, SharesIs
  <2>7. Within(h, T)
    <3>1. \A j \in Ids : services'[j] \in {services[j], Gone} \/ About(j, services'[j]) \subseteq T
          BY <1>3, <1>5, <1>7, <2>5
    <3>2. \A j \in Ids \ T : services'[j] = services[j] BY <1>3, <1>7, <2>5
    <3> QED BY <1>1, <1>6, <1>7, <1>8, <1>9, <2>4, <2>6, <3>1, <3>2 DEF Within
  <2>8. ServicesTypeOK' BY <1>6, <2>4, <2>5, <2>6 DEF VInv, ServicesTypeOK
  <2>9. Sound(req[h])'
    <3>1. Knows(q)' BY <1>2, <1>3, <1>4, <1>6, <2>2 DEF Knows
    <3>2. ASSUME Alone(q)' PROVE InHand(q)' /\ OwnThings(q)'
      <4>1. InHand(r) BY <1>3, <1>6, <2>2, <3>2 DEF Alone
      <4>2. PICK now : now = services[r.id] OBVIOUS
      <4>3. now # Gone /\ now \in Row /\ r.about = About(r.id, now) \cup About(r.id, r.row)
            BY <1>2, <1>3, <4>1, <4>2 DEF InHand, VInv, ServicesTypeOK
      <4>4. new = r.row BY <1>5, <4>2, <4>3
      <4>5. InHand(q)' BY <2>2, <2>5, <4>4 DEF InHand
      <4>6. ASSUME NEW j \in Ids \ {r.id}, services'[j] # Gone
            PROVE  About(j, services'[j]) \cap r.about \subseteq shared'
        <5>1. services'[j] = services[j] /\ Exists(j) BY <2>5, <4>6 DEF Exists
        <5>2. About(j, services[j]) \cap About(r.id, now) \subseteq shared
              BY <1>3, <4>2, <4>3, <5>1, NobodyElses
        <5>3. services[j] \in Row BY <5>1 DEF VInv, ServicesTypeOK, Exists
        <5>4. services[j].name # r.row.name BY <1>10, <5>1 DEF Unique
        <5>5. About(j, services[j]) \cap About(r.id, r.row) \subseteq SlugOf(services[j].url) \cap SlugOf(r.row.url)
              BY <1>3, <5>3, <5>4, AboutMeet
        <5>6. services'[r.id] = r.row /\ services'[r.id] # Gone BY <1>3, <2>5, <4>4, GoneAssumption
        <5>7. SlugOf(services[j].url) \cap SlugOf(r.row.url) \subseteq shared'
              BY <1>3, <2>6, <4>6, <5>1, <5>6
        <5> QED BY <2>6, <4>3, <5>1, <5>2, <5>5, <5>7
      <4>7. OwnThings(q)' BY <2>2, <4>6 DEF OwnThings, Exists
      <4> QED BY <4>5, <4>7
    <3> QED BY <2>4, <3>1, <3>2 DEF Sound
  <2>10. RowsAreApart'
    <3>1. \A i \in Ids : services'[i] # Gone => i < nextId'
          BY <1>3, <1>6, <2>5 DEF VInv, RowsAreApart, Exists, Knows
    <3>2. ASSUME NEW i \in Ids, NEW j \in Ids, i # j, services'[i] # Gone, services'[j] # Gone
          PROVE  services'[i].name # services'[j].name
      <4>1. CASE i # r.id /\ j # r.id BY <2>5, <3>2, <4>1 DEF VInv, RowsAreApart, Exists
      <4>2. CASE i = r.id BY <1>5, <1>10, <2>5, <3>2, <4>2 DEF Unique, Exists
      <4>3. CASE j = r.id BY <1>5, <1>10, <2>5, <3>2, <4>3 DEF Unique, Exists
      <4> QED BY <4>1, <4>2, <4>3
    <3> QED BY <2>6, <3>1, <3>2 DEF RowsAreApart, Exists
  <2>11. ASSUME NEW s \in Slugs, Plain(s)', mounts[s].id = r.id,
                services[r.id] # Gone, s \in SlugOf(services[r.id].url)
         PROVE  (services'[r.id] # Gone /\ s \in SlugOf(services'[r.id].url)) \/ Leaves(q, r.id, s)
    <3>1. r.id \notin crossed BY <1>6, <2>11 DEF Plain
    <3>2. services[r.id].url = r.old BY <1>2, <1>3, <3>1 DEF InHand
    <3>3. services'[r.id] = r.row /\ r.row # Gone BY <1>3, <1>5, <2>5, <2>11, GoneAssumption
    <3> QED BY <2>2, <2>11, <3>2, <3>3 DEF Leaves
  <2>12. Busy(q) /\ ~Busy(r) BY <1>2, <2>2 DEF Busy
  <2> QED BY <1>1, <1>3, <1>6, <1>7, <2>2, <2>4, <2>5, <2>7, <2>8, <2>9, <2>10, <2>11, <2>12, WriteInOrder
<1>11. CASE ~Unique(r.id, r.row)
  <2>1. services' = services /\ req' = [req EXCEPT ![h] = NoRequest] BY <1>1, <1>11 DEF UpdateService, Ends
  <2>2. req' \in [Handlers -> Request] /\ req'[h] = NoRequest /\ \A k \in Handlers \ {h} : req'[k] = req[k]
        BY <2>1, IdleIs DEF VInv, RequestsAreRecords
  <2>3. services' \in [Ids -> Row \cup {Gone}] BY <2>1 DEF VInv, ServicesTypeOK
  <2>4. shared \subseteq shared' /\ shared' \subseteq Slugs BY <1>6, <1>8, <2>3, SharesIs
  <2>5. Within(h, T) BY <1>1, <1>6, <1>7, <1>8, <1>9, <2>1, <2>2, <2>4 DEF Within
  <2>6. ServicesTypeOK' BY <1>6, <2>1, <2>2, <2>4 DEF VInv, ServicesTypeOK
  <2>7. Sound(req[h])' /\ req'[h].about \subseteq T BY <2>2, IdleIs DEF Sound
  <2>8. RowsAreApart' BY <1>6, <2>1, <2>4, RowsStayApart
  <2>9. ~Busy(r) BY <1>2 DEF Busy
  <2>10. ASSUME NEW i \in Ids, Untouched(i)' PROVE InStep(i)'
    <3>1. Untouched(i)
      <4>1. \A k \in Handlers : Busy(req[k]) => k # h BY <1>1, <2>9
      <4> QED BY <1>6, <2>1, <2>2, <2>4, <2>10, <4>1 DEF Untouched, Exists, Busy
    <3>2. InStep(i) BY <3>1 DEF VInv, UntouchedAreInStep
    <3>3. Definition(services[i])' = Definition(services[i]) BY <1>6, <2>1 DEF Definition
    <3> QED BY <1>6, <2>1, <3>2, <3>3 DEF InStep
  <2>11. ASSUME NEW s \in Slugs, Plain(s)' PROVE Owned(s)'
    <3>1. Plain(s) BY <1>6, <2>4, <2>11 DEF Plain
    <3>2. Owned(s) BY <3>1 DEF VInv, MountsAreOwned
    <3>3. \A k \in Handlers : Leaves(req[k], mounts[s].id, s) => Leaves(req'[k], mounts[s].id, s)
          BY <1>1, <2>2, <2>9 DEF Leaves, Busy
    <3> QED BY <1>6, <2>1, <3>2, <3>3 DEF Owned, Exists, Leaves
  <2> QED BY <1>1, <1>7, <2>2, <2>5, <2>6, <2>7, <2>8, <2>10, <2>11, StepInOrder
<1> QED BY <1>10, <1>11

-----------------------------------------------------------------------------
(* Requests that arrive                                                    *)

\* Who shares a thing with an arriving request crosses with it.
LEMMA CrossingIs ==
    ASSUME VInv, NEW about, about \subseteq Ids \cup Names \cup Slugs
    PROVE  /\ Crossing(about) \subseteq Ids \cup Names \cup Slugs
           /\ \A k \in Handlers : about \cap req[k].about # {} => about \cup req[k].about \subseteq Crossing(about)
<1>1. \A k \in Handlers : req[k].about \subseteq Ids \cup Names \cup Slugs
      BY DEF VInv, RequestsAreRecords, Request
<1>2. Crossing(about) \subseteq Ids \cup Names \cup Slugs BY <1>1 DEF Crossing
<1>3. ASSUME NEW k \in Handlers, about \cap req[k].about # {}
      PROVE  about \cup req[k].about \subseteq Crossing(about)
      BY <1>3 DEF Crossing
<1> QED BY <1>2, <1>3

\* What a service is about is what a request may be about.
LEMMA AboutIs ==
    ASSUME NEW i \in Ids, NEW row \in Row
    PROVE  About(i, row) \subseteq Ids \cup Names \cup Slugs /\ i \in About(i, row)
BY DEF About, Row, SlugOf, Ids

\* A request that arrives keeps the invariant if what it wrote is what it is
\* about and is in order.
LEMMA ArrivalInOrder ==
    ASSUME VInv, NEW h \in Handlers, NEW T, req[h].at = "idle", Within(h, T),
           ServicesTypeOK', req' \in [Handlers -> Request], NEW about, req'[h].about = about,
           about \subseteq Ids \cup Names \cup Slugs,
           crossed' = crossed \cup Crossing(about), Sound(req[h])', RowsAreApart',
           \A i \in Ids : Untouched(i)' /\ About(i, services'[i]) \cap T # {} => InStep(i)',
           \A s \in Slugs : Plain(s)' /\ {s, mounts'[s].id} \cap T # {} => Owned(s)'
    PROVE  VInv'
<1>1. RequestsAreSound' BY OthersStaySound DEF RequestsAreSound
<1>2. AboutIsApart'
  <2>1. \A k \in Handlers : about \cap req[k].about # {} => about \cup req[k].about \subseteq crossed'
        BY CrossingIs
  <2>2. ASSUME NEW k \in Handlers, NEW l \in Handlers, k # l, req'[k].about \cap req'[l].about # {}
        PROVE  req'[k].about \cup req'[l].about \subseteq crossed'
    <3>1. CASE k = h BY <2>1, <2>2, <3>1 DEF Within
    <3>2. CASE l = h BY <2>1, <2>2, <3>2 DEF Within
    <3>3. CASE k # h /\ l # h BY <2>2, <3>3 DEF Within, VInv, AboutIsApart
    <3> QED BY <3>1, <3>2, <3>3
  <2> QED BY <2>2 DEF AboutIsApart
<1>3. UntouchedAreInStep' BY ElsewhereInStep DEF UntouchedAreInStep
<1>4. ~Busy(req[h]) BY DEF Busy
<1>5. MountsAreOwned' BY <1>4, ElsewhereOwned DEF MountsAreOwned
<1> QED BY <1>1, <1>2, <1>3, <1>5 DEF VInv, RequestsAreRecords

\* A request that has not written leaves everything in order.
LEMMA BeginKeeps ==
    ASSUME VInv, NEW h \in Handlers, Free(h), NEW q \in Request, Begin(h, q),
           q.at \in {"update", "delete", "write", "erase"}, Knows(q), InHand(q)
    PROVE  VInv'
<1>1. req[h].at = "idle" /\ ~Busy(req[h]) BY DEF Free, Busy
<1>2. /\ UNCHANGED <<services, nextId, files, mounts, behind, shared>>
      /\ made' = made + 1 /\ req' = [req EXCEPT ![h] = q] /\ crossed' = crossed \cup Crossing(q.about)
      BY DEF Begin, rows
<1>3. req' \in [Handlers -> Request] /\ req'[h] = q /\ \A k \in Handlers \ {h} : req'[k] = req[k]
      BY <1>2 DEF VInv, RequestsAreRecords
<1>4. q.about \subseteq Ids \cup Names \cup Slugs BY DEF Request
<1>5. Within(h, {})
  <2>1. nextId \in Nat BY ServicesAssumption DEF VInv, ServicesTypeOK
  <2> QED BY <1>1, <1>2, <1>3, <2>1 DEF Within
<1>6. ServicesTypeOK'
  <2>1. made' \in 0..MaxRequests BY <1>2, ServicesAssumption DEF VInv, ServicesTypeOK, Free
  <2>2. crossed' \subseteq Ids \cup Names \cup Slugs BY <1>2, <1>4, CrossingIs DEF VInv, ServicesTypeOK
  <2> QED BY <1>2, <1>3, <2>1, <2>2 DEF VInv, ServicesTypeOK
<1>7. Sound(req[h])'
  <2>1. Knows(q)' BY <1>2 DEF Knows
  <2>2. InHand(q)' BY <1>2 DEF InHand, Definition
  <2>3. OwnThings(q)' BY DEF OwnThings, Busy
  <2> QED BY <1>3, <2>1, <2>2, <2>3 DEF Sound
<1>8. RowsAreApart' BY <1>2, RowsStayApart
<1> QED BY <1>1, <1>2, <1>3, <1>4, <1>5, <1>6, <1>7, <1>8, ArrivalInOrder

\* A service that is there has an id that was given, and a row.
LEMMA ExistsIs ==
    ASSUME VInv, NEW i \in Ids, Exists(i)
    PROVE  services[i] \in Row /\ i < nextId
BY DEF VInv, ServicesTypeOK, RowsAreApart, Exists

\* A row with one field changed is a row.
LEMMA EditsAreRows ==
    ASSUME NEW row \in Row
    PROVE  Edits(row) \subseteq Row
BY DEF Edits, Row

\* update_service, as far as its checks.
LEMMA BeginUpdateServiceKeeps ==
    ASSUME VInv, NEW h \in Handlers, Free(h), NEW i \in Ids, BeginUpdateService(h, i)
    PROVE  VInv'
<1>1. Exists(i) BY DEF BeginUpdateService
<1>2. PICK now : now = services[i] OBVIOUS
<1>3. now \in Row /\ i < nextId BY <1>1, <1>2, ExistsIs
<1>4. PICK row \in Edits(now) :
        Begin(h, [NoRequest EXCEPT !.at = "update", !.id = i, !.row = row, !.old = now.url,
                                   !.about = About(i, now) \cup About(i, row)])
      BY <1>2 DEF BeginUpdateService
<1>5. row \in Row BY <1>3, EditsAreRows
<1>6. PICK a : a = About(i, now) \cup About(i, row) OBVIOUS
<1>7. a \subseteq Ids \cup Names \cup Slugs BY <1>3, <1>5, <1>6, AboutIs
<1>8. PICK q : q = [NoRequest EXCEPT !.at = "update", !.id = i, !.row = row, !.old = now.url, !.about = a] OBVIOUS
<1>9. now.url \in Urls /\ i \in 0..MaxServices BY <1>3 DEF Row, Ids
<1>10. q \in Request /\ q.at = "update" /\ q.id = i /\ q.row = row /\ q.old = now.url /\ q.about = a
       BY <1>5, <1>7, <1>8, <1>9, IdleIs DEF Request
<1>11. Begin(h, q) BY <1>4, <1>6, <1>8
<1>12. SlugOf(now.url) \subseteq About(i, now) BY DEF About
<1>13. Knows(q) BY <1>3, <1>5, <1>6, <1>10, <1>12 DEF Knows
<1>14. InHand(q) BY <1>1, <1>2, <1>6, <1>10 DEF InHand, Exists
<1> QED BY <1>10, <1>11, <1>13, <1>14, BeginKeeps

\* delete_service, and the writes of definitions, as far as they read the row.
LEMMA BeginOnRowKeeps ==
    ASSUME VInv, NEW h \in Handlers, Free(h), NEW i \in Ids,
           \/ BeginDeleteService(h, i) \/ BeginEraseFile(h, i)
           \/ \E c \in Contents \cup {Bad} : BeginWriteFile(h, i, c)
    PROVE  VInv'
<1>1. Exists(i) BY DEF BeginDeleteService, BeginEraseFile, BeginWriteFile
<1>2. PICK now : now = services[i] OBVIOUS
<1>3. now \in Row /\ i < nextId BY <1>1, <1>2, ExistsIs
<1>4. PICK a : a = About(i, now) OBVIOUS
<1>5. a \subseteq Ids \cup Names \cup Slugs BY <1>3, <1>4, AboutIs
<1>6. now.url \in Urls /\ i \in 0..MaxServices BY <1>3 DEF Row, Ids
<1>7. \E q \in Request : /\ Begin(h, q) /\ q.id = i /\ q.row = now /\ q.about = a
                         /\ \/ q.at = "delete"
                            \/ q.at = "erase" /\ now.kind \in Defined
                            \/ q.at = "write" /\ now.kind \in Defined /\ q.old = now.url
  <2>1. CASE BeginDeleteService(h, i)
    <3>1. PICK q : q = [NoRequest EXCEPT !.at = "delete", !.id = i, !.row = now, !.about = a] OBVIOUS
    <3>2. q \in Request /\ q.at = "delete" /\ q.id = i /\ q.row = now /\ q.about = a
          BY <1>3, <1>5, <1>6, <3>1, IdleIs DEF Request
    <3>3. Begin(h, q) BY <1>2, <1>4, <2>1, <3>1 DEF BeginDeleteService
    <3> QED BY <3>2, <3>3
  <2>2. CASE BeginEraseFile(h, i)
    <3>1. PICK q : q = [NoRequest EXCEPT !.at = "erase", !.id = i, !.row = now, !.about = a] OBVIOUS
    <3>2. q \in Request /\ q.at = "erase" /\ q.id = i /\ q.row = now /\ q.about = a
          BY <1>3, <1>5, <1>6, <3>1, IdleIs DEF Request
    <3>3. Begin(h, q) /\ now.kind \in Defined BY <1>2, <1>4, <2>2, <3>1 DEF BeginEraseFile
    <3> QED BY <3>2, <3>3
  <2>3. CASE \E c \in Contents \cup {Bad} : BeginWriteFile(h, i, c)
    <3>1. PICK c \in Contents \cup {Bad} : BeginWriteFile(h, i, c) BY <2>3
    <3>2. PICK q : q = [NoRequest EXCEPT !.at = "write", !.id = i, !.row = now, !.old = now.url, !.tools = c, !.about = a]
          OBVIOUS
    <3>3. q \in Request /\ q.at = "write" /\ q.id = i /\ q.row = now /\ q.about = a /\ q.old = now.url
          BY <1>3, <1>5, <1>6, <3>2, IdleIs DEF Request
    <3>4. Begin(h, q) /\ now.kind \in Defined BY <1>2, <1>4, <3>1, <3>2 DEF BeginWriteFile
    <3> QED BY <3>3, <3>4
  <2> QED BY <2>1, <2>2, <2>3
<1>8. PICK q \in Request : /\ Begin(h, q) /\ q.id = i /\ q.row = now /\ q.about = a
                           /\ \/ q.at = "delete"
                              \/ q.at = "erase" /\ now.kind \in Defined
                              \/ q.at = "write" /\ now.kind \in Defined /\ q.old = now.url
      BY <1>7
<1>9. Knows(q) BY <1>3, <1>4, <1>8 DEF Knows
<1>10. InHand(q) BY <1>2, <1>8 DEF InHand
<1> QED BY <1>8, <1>9, <1>10, BeginKeeps

\* A service is registered under an id of its own, and has a mount still to make.
LEMMA CreateServiceKeeps ==
    ASSUME VInv, NEW h \in Handlers, Free(h), NEW row \in Row, CreateService(h, row)
    PROVE  VInv'
<1>1. req[h].at = "idle" /\ ~Busy(req[h]) BY DEF Free, Busy
<1>2. PICK n : n = nextId OBVIOUS
<1>3. n \in Ids /\ n \in Nat BY <1>2, ServicesAssumption DEF CreateService, VInv, ServicesTypeOK, Ids
<1>4. services[n] = Gone /\ Unique(n, row)
      BY <1>2, <1>3 DEF CreateService, VInv, RowsAreApart, Exists
<1>5. PICK T : T = About(n, row) OBVIOUS
<1>6. T \subseteq Ids \cup Names \cup Slugs /\ n \in T BY <1>3, <1>5, AboutIs
<1>7. PICK q : q = [NoRequest EXCEPT !.at = "load", !.id = n, !.row = row, !.old = row.url, !.about = T] OBVIOUS
<1>8. row.url \in Urls /\ n \in 0..MaxServices BY <1>3 DEF Row, Ids
<1>9. q \in Request /\ q.at = "load" /\ q.id = n /\ q.row = row /\ q.old = row.url /\ q.about = T
      BY <1>6, <1>7, <1>8, IdleIs DEF Request
<1>10. /\ services' = [services EXCEPT ![n] = row] /\ nextId' = n + 1
       /\ made' = made + 1 /\ Shares /\ req' = [req EXCEPT ![h] = q] /\ crossed' = crossed \cup Crossing(T)
       /\ UNCHANGED <<files, mounts, behind>>
       BY <1>2, <1>5, <1>7 DEF CreateService
<1>11. req' \in [Handlers -> Request] /\ req'[h] = q /\ \A k \in Handlers \ {h} : req'[k] = req[k]
       BY <1>9, <1>10 DEF VInv, RequestsAreRecords
<1>12. /\ services' \in [Ids -> Row \cup {Gone}] /\ services'[n] = row /\ row # Gone
       /\ \A j \in Ids \ {n} : services'[j] = services[j]
       BY <1>3, <1>10, GoneAssumption DEF VInv, ServicesTypeOK
<1>13. /\ shared \subseteq shared' /\ shared' \subseteq Slugs
       /\ \A i, j \in Ids : i # j /\ services'[i] # Gone /\ services'[j] # Gone =>
             SlugOf(services'[i].url) \cap SlugOf(services'[j].url) \subseteq shared'
  <2>1. shared \subseteq Slugs BY DEF VInv, ServicesTypeOK
  <2> QED BY <1>10, <1>12, <2>1, SharesIs
<1>14. Within(h, T)
  <2>1. nextId <= nextId' /\ nextId' \in Nat BY <1>2, <1>3, <1>10
  <2>2. \A k \in Handlers : req[k].about \subseteq crossed' \/ req[k].about \cap T = {}
        BY <1>6, <1>10, CrossingIs
  <2>3. /\ \A j \in Ids \ T : services'[j] = services[j]
        /\ \A j \in Ids : services'[j] = services[j] \/ About(j, services'[j]) \subseteq T
        BY <1>5, <1>6, <1>12
  <2> QED BY <1>1, <1>10, <1>11, <1>13, <2>1, <2>2, <2>3 DEF Within
<1>15. ServicesTypeOK'
  <2>1. made' \in 0..MaxRequests BY <1>10, ServicesAssumption DEF VInv, ServicesTypeOK, Free
  <2>2. crossed' \subseteq Ids \cup Names \cup Slugs BY <1>6, <1>10, CrossingIs DEF VInv, ServicesTypeOK
  <2>3. nextId' \in 1..MaxServices + 1 BY <1>3, <1>10, ServicesAssumption DEF Ids
  <2> QED BY <1>10, <1>11, <1>12, <1>13, <2>1, <2>2, <2>3 DEF VInv, ServicesTypeOK
<1>16. Sound(req[h])'
  <2>1. Knows(q)'
    <3>1. SlugOf(row.url) \subseteq T BY <1>5 DEF About
    <3> QED BY <1>3, <1>5, <1>9, <1>10, <3>1 DEF Knows
  <2>2. InHand(q)' BY <1>9, <1>12 DEF InHand
  <2>3. ASSUME NEW j \in Ids \ {n}, services'[j] # Gone PROVE About(j, services'[j]) \cap T \subseteq shared'
    <3>1. services'[j] = services[j] /\ services[j] \in Row /\ Exists(j)
          BY <1>12, <2>3 DEF VInv, ServicesTypeOK, Exists
    <3>2. services[j].name # row.name BY <1>4, <3>1 DEF Unique
    <3>3. About(j, services[j]) \cap T \subseteq SlugOf(services[j].url) \cap SlugOf(row.url)
          BY <1>3, <1>5, <3>1, <3>2, AboutMeet
    <3>4. SlugOf(services[j].url) \cap SlugOf(row.url) \subseteq shared' BY <1>3, <1>12, <1>13, <2>3, <3>1
    <3> QED BY <3>1, <3>3, <3>4
  <2>4. OwnThings(q)' BY <1>9, <2>3 DEF OwnThings, Exists
  <2> QED BY <1>11, <2>1, <2>2, <2>4 DEF Sound
<1>17. RowsAreApart'
  <2>1. \A i \in Ids : services'[i] # Gone => i < nextId'
        BY <1>2, <1>3, <1>10, <1>12 DEF VInv, RowsAreApart, Exists, Ids
  <2>2. ASSUME NEW i \in Ids, NEW j \in Ids, i # j, services'[i] # Gone, services'[j] # Gone
        PROVE  services'[i].name # services'[j].name
    <3>1. CASE i # n /\ j # n BY <1>12, <2>2, <3>1 DEF VInv, RowsAreApart, Exists
    <3>2. CASE i = n BY <1>4, <1>12, <2>2, <3>2 DEF Unique, Exists
    <3>3. CASE j = n BY <1>4, <1>12, <2>2, <3>3 DEF Unique, Exists
    <3> QED BY <3>1, <3>2, <3>3
  <2> QED BY <1>13, <2>1, <2>2 DEF RowsAreApart, Exists
<1>18. ASSUME NEW i \in Ids, Untouched(i)', About(i, services'[i]) \cap T # {} PROVE InStep(i)'
  <2>1. Busy(req'[h]) /\ req'[h].about = T BY <1>9, <1>11 DEF Busy
  <2> QED BY <1>18, <2>1 DEF Untouched, Busy
<1>19. ASSUME NEW s \in Slugs, Plain(s)' PROVE Owned(s)'
  <2>1. Plain(s) BY <1>10, <1>13, <1>19 DEF Plain
  <2>2. Owned(s) BY <2>1 DEF VInv, MountsAreOwned
  <2>3. \A k \in Handlers : Leaves(req[k], mounts[s].id, s) => Leaves(req'[k], mounts[s].id, s)
        BY <1>1, <1>11 DEF Leaves, Busy
  <2>4. mounts[s].id \in Ids BY <2>1 DEF VInv, ServicesTypeOK, Plain, Mounted
  <2>5. Exists(mounts[s].id) => services'[mounts[s].id] = services[mounts[s].id]
        BY <1>4, <1>12, <2>4 DEF Exists
  <2> QED BY <1>10, <2>2, <2>3, <2>5 DEF Owned, Exists, Leaves
<1> QED BY <1>1, <1>6, <1>9, <1>10, <1>11, <1>14, <1>15, <1>16, <1>17, <1>18, <1>19, ArrivalInOrder

\* A restart mounts what the rows and the files say.
LEMMA CrashKeeps ==
    ASSUME VInv, Crash
    PROVE  VInv'
<1> DEFINE at(s) == {i \in Ids : Exists(i) /\ s \in SlugOf(services[i].url) /\ Loads(services[i], Definition(services[i]))}
<1>1. /\ UNCHANGED <<services, nextId, files, made, shared>>
      /\ req' = [h \in Handlers |-> NoRequest] /\ behind' = {} /\ crossed' = {}
      BY DEF Crash, rows
<1>2. PICK pick \in [Slugs -> Ids] :
        /\ mounts' = [s \in Slugs |->
             IF pick[s] \in at(s)
             THEN [id |-> pick[s], gate |-> services[pick[s]].gate, tools |-> Definition(services[pick[s]])]
             ELSE Gone]
        /\ \A s \in Slugs : at(s) # {} => pick[s] \in at(s)
      BY DEF Crash
<1>3. req' \in [Handlers -> Request] /\ \A h \in Handlers : req'[h] = NoRequest BY <1>1, IdleIs
<1>4. ASSUME NEW s \in Slugs, pick[s] \in at(s)
      PROVE  /\ mounts'[s] = [id |-> pick[s], gate |-> services[pick[s]].gate, tools |-> Definition(services[pick[s]])]
             /\ mounts'[s] \in Mounted /\ mounts'[s].id = pick[s]
             /\ services[pick[s]] # Gone /\ s \in SlugOf(services[pick[s]].url)
  <2>1. pick[s] \in Ids /\ Exists(pick[s]) /\ s \in SlugOf(services[pick[s]].url)
        /\ Loads(services[pick[s]], Definition(services[pick[s]]))
        BY <1>4
  <2>2. services[pick[s]] \in Row BY <2>1, ExistsIs
  <2>3. Definition(services[pick[s]]) \in Contents \cup {Bad} BY <2>1, <2>2, DefinitionIs
  <2>4. mounts'[s] = [id |-> pick[s], gate |-> services[pick[s]].gate, tools |-> Definition(services[pick[s]])]
        BY <1>2, <1>4
  <2>5. services[pick[s]].gate \in Gates BY <2>2 DEF Row
  <2> QED BY <2>1, <2>3, <2>4, <2>5 DEF Mounted, Exists
<1>5. \A s \in Slugs : pick[s] \notin at(s) => mounts'[s] = Gone BY <1>2
<1>6. ServicesTypeOK'
  <2>1. mounts' \in [Slugs -> Mounted \cup {Gone}]
    <3>1. \A s \in Slugs : mounts'[s] \in Mounted \cup {Gone} BY <1>4, <1>5
    <3>2. mounts' = [s \in Slugs |-> mounts'[s]] BY <1>2
    <3> QED BY <3>1, <3>2
  <2> QED BY <1>1, <1>3, <2>1 DEF VInv, ServicesTypeOK
<1>7. AboutIsApart' /\ RequestsAreSound' BY <1>3, IdleIs DEF AboutIsApart, RequestsAreSound, Sound
<1>8. RowsAreApart' BY <1>1, RowsStayApart
<1>9. ASSUME NEW i \in Ids, Untouched(i)' PROVE InStep(i)'
  <2>1. Exists(i) /\ SlugOf(services[i].url) \cap shared = {} BY <1>1, <1>9 DEF Untouched, Exists, About
  <2>2. Definition(services[i])' = Definition(services[i]) BY <1>1 DEF Definition
  <2>3. ASSUME NEW s \in SlugOf(services[i].url)
        PROVE  mounts'[s] = IF Loads(services[i], Definition(services[i]))
                            THEN [id |-> i, gate |-> services[i].gate, tools |-> Definition(services[i])] ELSE Gone
    <3>1. s \in Slugs /\ s \notin shared BY <2>1, <2>3 DEF SlugOf
    <3>2. \A j \in at(s) : j = i BY <2>1, <2>3, <3>1 DEF VInv, RowsAreApart
    <3>3. CASE Loads(services[i], Definition(services[i]))
      <4>1. i \in at(s) BY <2>1, <2>3, <3>3
      <4>2. pick[s] \in at(s) /\ pick[s] = i BY <1>2, <3>1, <3>2, <4>1
      <4> QED BY <1>4, <3>1, <3>3, <4>2
    <3>4. CASE ~Loads(services[i], Definition(services[i]))
      <4>1. pick[s] \notin at(s) BY <3>2, <3>4
      <4> QED BY <1>5, <3>1, <3>4, <4>1
    <3> QED BY <3>3, <3>4
  <2> QED BY <1>1, <2>2, <2>3 DEF InStep
<1>10. ASSUME NEW s \in Slugs, Plain(s)' PROVE Owned(s)'
  <2>1. pick[s] \in at(s) BY <1>5, <1>10 DEF Plain
  <2> QED BY <1>1, <1>4, <2>1 DEF Owned, Exists
<1> QED BY <1>3, <1>6, <1>7, <1>8, <1>9, <1>10 DEF VInv, RequestsAreRecords, UntouchedAreInStep, MountsAreOwned

-----------------------------------------------------------------------------
(* The theorem                                                             *)

\* An install with one virtual service is in order.
LEMMA InitIsInOrder == ServicesInit => VInv
<1> SUFFICES ASSUME ServicesInit PROVE VInv OBVIOUS
<1>1. PICK n \in Names, s \in Slugs, g \in Gates, c \in Contents :
        LET row == [name |-> n, url |-> <<"mcp", s>>, kind |-> "virtual", gate |-> g] IN
        /\ services = [i \in Ids |-> IF i = 1 THEN row ELSE Gone]
        /\ files = [k \in Keys |-> IF k = <<"virtual", n>> THEN c ELSE Gone]
        /\ mounts = [t \in Slugs |-> IF t = s THEN [id |-> 1, gate |-> g, tools |-> c] ELSE Gone]
      BY DEF ServicesInit
<1>2. PICK row : row = [name |-> n, url |-> <<"mcp", s>>, kind |-> "virtual", gate |-> g] OBVIOUS
<1>3. PICK m : m = [id |-> 1, gate |-> g, tools |-> c] OBVIOUS
<1>4. 1 \in Ids /\ nextId = 2 /\ 2 \in 1..MaxServices + 1 /\ 0 \in 0..MaxRequests
      BY ServicesAssumption DEF Ids, ServicesInit
<1>5. row \in Row /\ m \in Mounted /\ row # Gone /\ m # Gone
  <2>1. row \in Row BY <1>2 DEF Row, Urls, Doors, Kinds, Defined
  <2>2. m \in Mounted BY <1>3, <1>4 DEF Mounted
  <2> QED BY <2>1, <2>2, GoneAssumption
<1>6. /\ services = [i \in Ids |-> IF i = 1 THEN row ELSE Gone]
      /\ files = [k \in Keys |-> IF k = <<"virtual", n>> THEN c ELSE Gone]
      /\ mounts = [t \in Slugs |-> IF t = s THEN m ELSE Gone]
      BY <1>1, <1>2, <1>3
<1>7. \A h \in Handlers : req[h] = NoRequest /\ req[h] \in Request BY IdleIs DEF ServicesInit
<1>8. ServicesTypeOK BY <1>4, <1>5, <1>6, <1>7 DEF ServicesTypeOK, ServicesInit
<1>9. RequestsAreRecords BY IdleIs DEF RequestsAreRecords, ServicesInit
<1>10. AboutIsApart /\ RequestsAreSound BY <1>7, IdleIs DEF AboutIsApart, RequestsAreSound, Sound
<1>11. \A i \in Ids : Exists(i) => i = 1 BY <1>6 DEF Exists
<1>12. RowsAreApart BY <1>4, <1>11 DEF RowsAreApart
<1>13. SlugOf(row.url) = {s} BY <1>2 DEF SlugOf, Doors
<1>14. UntouchedAreInStep
  <2>1. Definition(row) = c /\ row.kind = "virtual"
    <3>1. row.kind = "virtual" /\ row.name = n /\ "virtual" \in Defined BY <1>2 DEF Defined
    <3>2. <<"virtual", n>> \in Keys BY <3>1 DEF Keys
    <3> QED BY <1>6, <3>1, <3>2 DEF Definition
  <2>2. Loads(row, c) BY <2>1, ServicesAssumption DEF Loads, Defined
  <2>3. InStep(1)
    <3>1. services[1] = row /\ mounts[s] = m /\ row.gate = g BY <1>2, <1>4, <1>6
    <3> QED BY <1>3, <1>13, <2>1, <2>2, <3>1 DEF InStep
  <2> QED BY <1>11, <2>3 DEF UntouchedAreInStep, Untouched
<1>15. MountsAreOwned
  <2>1. ASSUME NEW t \in Slugs, Plain(t) PROVE Owned(t)
    <3>1. t = s /\ mounts[t] = m /\ m.id = 1 BY <1>3, <1>6, <2>1 DEF Plain
    <3>2. services[1] = row BY <1>4, <1>6
    <3> QED BY <1>5, <1>13, <3>1, <3>2 DEF Owned, Exists
  <2> QED BY <2>1 DEF MountsAreOwned
<1> QED BY <1>8, <1>9, <1>10, <1>12, <1>14, <1>15 DEF VInv

\* Every step keeps the invariant.
LEMMA NextKeeps == VInv /\ [ServicesNext]_servicesVars => VInv'
<1> SUFFICES ASSUME VInv, [ServicesNext]_servicesVars PROVE VInv' OBVIOUS
<1>1. ASSUME NEW h \in Handlers, Free(h), Arrive(h) PROVE VInv'
  <2>1. ASSUME NEW row \in Row, CreateService(h, row) PROVE VInv' BY <1>1, <2>1, CreateServiceKeeps
  <2>2. ASSUME NEW i \in Ids, BeginUpdateService(h, i) PROVE VInv' BY <1>1, <2>2, BeginUpdateServiceKeeps
  <2>3. ASSUME NEW i \in Ids, \/ BeginDeleteService(h, i) \/ BeginEraseFile(h, i)
                              \/ \E c \in Contents \cup {Bad} : BeginWriteFile(h, i, c)
        PROVE  VInv'
        BY <1>1, <2>3, BeginOnRowKeeps
  <2> QED BY <1>1, <2>1, <2>2, <2>3 DEF Arrive
<1>2. ASSUME NEW h \in Handlers, Step(h) PROVE VInv'
  <2>1. CASE UpdateService(h) BY <2>1, UpdateServiceKeeps
  <2>2. CASE Load(h) BY <2>2, LoadKeeps
  <2>3. CASE Register(h) BY <2>3, RegisterKeeps
  <2>4. CASE DeleteService(h) BY <2>4, DeleteServiceKeeps
  <2>5. CASE Unmount(h) BY <2>5, UnmountKeeps
  <2>6. CASE WriteFile(h) \/ EraseFile(h) BY <2>6, FileKeeps
  <2> QED BY <1>2, <2>1, <2>2, <2>3, <2>4, <2>5, <2>6 DEF Step
<1>3. CASE Crash BY <1>3, CrashKeeps
<1>4. CASE UNCHANGED servicesVars
  <2>1. UNCHANGED <<services, nextId, files, mounts, req, made, crossed, behind, shared>>
        BY <1>4 DEF servicesVars, rows, history
  <2>2. ServicesTypeOK' /\ RequestsAreRecords' /\ AboutIsApart' BY <2>1 DEF VInv, ServicesTypeOK, RequestsAreRecords, AboutIsApart
  <2>3. RequestsAreSound'
        BY <2>1 DEF VInv, RequestsAreSound, Sound, Knows, Alone, InHand, OwnThings, Exists, Definition
  <2>4. RowsAreApart' BY <2>1, RowsStayApart
  <2>5. UntouchedAreInStep' BY <2>1 DEF VInv, UntouchedAreInStep, Untouched, InStep, Exists, Definition
  <2>6. MountsAreOwned' BY <2>1 DEF VInv, MountsAreOwned, Plain, Owned, Exists
  <2> QED BY <2>2, <2>3, <2>4, <2>5, <2>6 DEF VInv
<1> QED BY <1>1, <1>2, <1>3, <1>4 DEF ServicesNext

\* What is settled is untouched, and nobody is about to take its mount away.
LEMMA InvariantSaysIt == VInv => MountsFollowTheRows
<1> SUFFICES ASSUME VInv PROVE MountsFollowTheRows OBVIOUS
<1>1. ServicesTypeOK BY DEF VInv
<1>2. MountsAreInStep
  <2>1. ASSUME NEW i \in Ids, Settled(i), i \notin behind PROVE Untouched(i)
        BY <2>1 DEF Settled, Untouched, InFlight
  <2> QED BY <2>1 DEF VInv, UntouchedAreInStep, InStep, MountsAreInStep
<1>3. MountsHaveAService
  <2>1. ASSUME NEW s \in Slugs, mounts[s] # Gone, {s, mounts[s].id} \cap (InFlight \cup crossed \cup shared) = {}
        PROVE  Exists(mounts[s].id) /\ s \in SlugOf(services[mounts[s].id].url)
    <3>1. Owned(s) BY <2>1 DEF VInv, MountsAreOwned, Plain
    <3>2. ASSUME NEW k \in Handlers, Leaves(req[k], mounts[s].id, s) PROVE FALSE
      <4>1. req[k].at # "idle" /\ req[k].id = mounts[s].id BY <3>2 DEF Leaves
      <4>2. mounts[s].id \in req[k].about BY <4>1, UnderWay
      <4> QED BY <2>1, <4>2 DEF InFlight
    <3> QED BY <3>1, <3>2 DEF Owned
  <2> QED BY <2>1 DEF MountsHaveAService
<1> QED BY <1>1, <1>2, <1>3 DEF MountsFollowTheRows

\* What answers at a slug is what the rows and the definitions say: a service
\* that nobody is writing answers with its definition and under its gate, and one
\* deleted or moved goes on answering nowhere (syncMCPMount, the registry's add
\* and remove, a restart), for any number of services and requests.
THEOREM TheMountsFollow == ServicesSpec => []MountsFollowTheRows
<1>1. ServicesInit => VInv BY InitIsInOrder
<1>2. VInv /\ [ServicesNext]_servicesVars => VInv' BY NextKeeps
<1>3. VInv => MountsFollowTheRows BY InvariantSaysIt
<1> QED BY <1>1, <1>2, <1>3, PTL DEF ServicesSpec

=============================================================================
