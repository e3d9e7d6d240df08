-------------------------- MODULE UpdateFeeds_proofs --------------------------
(***************************************************************************)
(* Proofs about UpdateFeeds: type correctness, and that runs taking turns  *)
(* keep the stamps they read current, so that a stamp only moves forward   *)
(* and never past what is installed, whatever the number of feeds,         *)
(* callers and archives.                                                   *)
(***************************************************************************)
EXTENDS UpdateFeeds, VirtualTools, SequenceTheorems, FiniteSetTheorems, WellFoundedInduction, TLAPS

USE DEF At, Exists

\* The steps of a run that holds the lock.
Working == {"fetch", "cache", "seen", "refetch", "recache", "ops", "stamp"}

\* Those of them that have an archive in hand.
Holding == {"cache", "seen", "recache", "ops", "stamp"}

\* Only the run that holds the lock has feeds left to work on, and it has an
\* archive in hand once one was fetched.
RunsTakeTurns ==
    \A c \in Callers :
        /\ calls[c].pc \in Working => feedRunMu = c /\ calls[c].todo # <<>>
        /\ calls[c].pc \notin Working => calls[c].todo = <<>>
        /\ calls[c].pc \in Holding => calls[c].body \in Archives

\* The feeds a run read are in the table, or deleted since, and each of them
\* is in its list once.
ListsHoldEachOnce ==
    \A c \in Callers : \A i \in DOMAIN calls[c].todo :
        /\ rows[calls[c].todo[i].id] # NoFeed
        /\ \A j \in DOMAIN calls[c].todo :
             i # j => calls[c].todo[i].id # calls[c].todo[j].id

\* An archive about to be stamped is news, and has run.
StampsAreNews ==
    \A c \in Callers :
        /\ calls[c].pc \in {"ops", "stamp"} => calls[c].body.version > Cur(c).row.applied
        /\ At(c, "stamp") => content[Cur(c).id] = calls[c].body.version

Turns == TypeOK /\ RunsTakeTurns /\ StampsAreNews

IInv == /\ Turns
        /\ ListsHoldEachOnce
        /\ StampsAreCurrent
        /\ ContentNotUnderStamp

\* No apply names a feed twice.
NamesOnce == \A ids \in IdLists : \A i, j \in DOMAIN ids : i # j => ids[i] # ids[j]

-----------------------------------------------------------------------------
(* The lists a run reads                                                   *)

\* A list SetToSeqs returns holds elements of the set, each once.
LEMMA ListsOfASet ==
    ASSUME NEW S, IsFiniteSet(S), NEW s \in SetToSeqs(S)
    PROVE  /\ s \in Seq(S)
           /\ \A i, j \in DOMAIN s : i # j => s[i] # s[j]
<1>1. Cardinality(S) \in Nat
    BY FS_CardinalityType
<1>2. /\ s \in [1..Cardinality(S) -> S]
      /\ \A i, j \in 1..Cardinality(S) : i # j => s[i] # s[j]
    BY DEF SetToSeqs
<1> QED BY <1>1, <1>2

\* The feeds an apply or a check selects are in the table.
LEMMA SelectedExist ==
    ASSUME TypeOK, NEW ids \in IdLists \cup {<<>>}, NEW s \in Selected(ids)
    PROVE  /\ s \in Seq(Feeds)
           /\ \A i \in DOMAIN s : Exists(s[i])
<1>1. CASE ids = <<>>
  <2> DEFINE S == {f \in Feeds : Exists(f)}
  <2>1. s \in SetToSeqs(S)
      BY <1>1 DEF Selected
  <2>2. IsFiniteSet(S)
      BY FeedsAssumption, FS_Subset
  <2>3. s \in Seq(S)
      BY <2>1, <2>2, ListsOfASet
  <2> QED BY <2>3
<1>2. CASE ids # <<>>
  <2> DEFINE there == {i \in DOMAIN ids : Exists(ids[i])}
  <2>1. PICK at \in SetToSeqs(there) : s = [n \in DOMAIN at |-> ids[at[n]]]
      BY <1>2 DEF Selected
  <2>2. ids \in Seq(Feeds)
      BY <1>2, FeedsAssumption
  <2>3. Len(ids) \in Nat /\ DOMAIN ids = 1..Len(ids)
      BY <2>2
  <2>4. IsFiniteSet(there)
    <3>1. IsFiniteSet(DOMAIN ids)
        BY <2>3, FS_Interval
    <3> QED BY <3>1, FS_Subset
  <2>5. at \in Seq(there)
      BY <2>1, <2>4, ListsOfASet
  <2>6. \A n \in DOMAIN at : at[n] \in DOMAIN ids /\ Exists(ids[at[n]])
      BY <2>5
  <2>7. DOMAIN s = 1..Len(at) /\ Len(at) \in Nat /\ DOMAIN at = 1..Len(at)
      BY <2>1, <2>5
  <2>8. \A n \in 1..Len(at) : s[n] = ids[at[n]] /\ s[n] \in Feeds
      BY <2>1, <2>2, <2>3, <2>6, <2>7
  <2>9. s \in [1..Len(at) -> Feeds]
      BY <2>1, <2>7, <2>8
  <2>10. s \in Seq(Feeds)
      BY <2>7, <2>9
  <2> QED BY <2>6, <2>7, <2>8, <2>10
<1> QED BY <1>1, <1>2

\* An apply that names no feed twice selects no feed twice.
LEMMA SelectedOnce ==
    ASSUME TypeOK, NamesOnce, NEW ids \in IdLists \cup {<<>>}, NEW s \in Selected(ids)
    PROVE  \A i, j \in DOMAIN s : i # j => s[i] # s[j]
<1>1. CASE ids = <<>>
  <2> DEFINE S == {f \in Feeds : Exists(f)}
  <2>1. s \in SetToSeqs(S)
      BY <1>1 DEF Selected
  <2>2. IsFiniteSet(S)
      BY FeedsAssumption, FS_Subset
  <2> QED BY <2>1, <2>2, ListsOfASet
<1>2. CASE ids # <<>>
  <2> DEFINE there == {i \in DOMAIN ids : Exists(ids[i])}
  <2>1. PICK at \in SetToSeqs(there) : s = [n \in DOMAIN at |-> ids[at[n]]]
      BY <1>2 DEF Selected
  <2>2. ids \in Seq(Feeds)
      BY <1>2, FeedsAssumption
  <2>3. Len(ids) \in Nat /\ DOMAIN ids = 1..Len(ids)
      BY <2>2
  <2>4. IsFiniteSet(there)
    <3>1. IsFiniteSet(DOMAIN ids)
        BY <2>3, FS_Interval
    <3> QED BY <3>1, FS_Subset
  <2>5. /\ at \in Seq(there)
        /\ \A m, n \in DOMAIN at : m # n => at[m] # at[n]
      BY <2>1, <2>4, ListsOfASet
  <2>6. \A n \in DOMAIN at : at[n] \in DOMAIN ids
      BY <2>5
  <2>7. \A m, n \in DOMAIN at : m # n => ids[at[m]] # ids[at[n]]
      BY <1>2, <2>5, <2>6 DEF NamesOnce
  <2> QED BY <2>1, <2>7
<1> QED BY <1>1, <1>2

-----------------------------------------------------------------------------
(* What a step does to the run that takes it                               *)

\* A run under way and its archive keep their places.
Stays(c, new) ==
    /\ new \in Call
    /\ calls' = [calls EXCEPT ![c] = new]
    /\ new.todo = calls[c].todo
    /\ new.pc \in Working
    /\ new.pc \in Holding => new.body \in Archives
    /\ new.pc \in {"ops", "stamp"} => new.body.version > Cur(c).row.applied
    /\ new.pc = "stamp" => content'[Cur(c).id] = new.body.version
    /\ feedRunMu' = feedRunMu

\* A run goes on to its next feed, or lets go of the lock after its last one.
Advances(c, new) ==
    /\ new \in Call
    /\ calls' = [calls EXCEPT ![c] = new]
    /\ \/ /\ new.pc = "fetch"
          /\ new.todo = Tail(calls[c].todo)
          /\ new.todo # <<>>
          /\ feedRunMu' = feedRunMu
       \/ /\ new.pc \in {"unlocked", "idle"}
          /\ new.todo = <<>>
          /\ feedRunMu' = NoCaller

\* A caller doing nothing is a call like any other.
LEMMA IdleIsCall == Idle \in Call /\ Idle.pc = "idle" /\ Idle.todo = <<>>
BY DEF Idle, Request, Call, Pcs

\* Whatever a run has left to do is a feed and its row.
LEMMA ItemsOfTodo ==
    ASSUME TypeOK, NEW c \in Callers, NEW i \in DOMAIN calls[c].todo
    PROVE  calls[c].todo[i] \in [id: Feeds, row: Row]
<1> DEFINE todo == calls[c].todo
<1>1. todo \in Seq([id: Feeds, row: Row])
    BY DEF TypeOK, Call
<1>2. i \in DOMAIN todo
    OBVIOUS
<1> HIDE DEF todo
<1>3. i \in 1..Len(todo)
    BY <1>1, <1>2, LenProperties
<1>4. todo[i] \in [id: Feeds, row: Row]
    BY <1>1, <1>3, ElementOfSeq
<1> QED BY <1>4 DEF todo

\* The row a run works on is one of those it read.
LEMMA CurIsItem ==
    ASSUME TypeOK, NEW c \in Callers, calls[c].todo # <<>>
    PROVE  /\ 1 \in DOMAIN calls[c].todo
           /\ Cur(c) = calls[c].todo[1]
           /\ Cur(c) \in [id: Feeds, row: Row]
<1> DEFINE todo == calls[c].todo
<1>1. todo \in Seq([id: Feeds, row: Row])
    BY DEF TypeOK, Call
<1>2. Head(todo) = todo[1] /\ Len(todo) \in Nat \ {0} /\ DOMAIN todo = 1..Len(todo)
    BY <1>1
<1>3. todo[1] \in [id: Feeds, row: Row]
    BY <1>1, <1>2, HeadTailProperties
<1> QED BY <1>2, <1>3 DEF Cur

\* What the tail of a list holds was in the list, one place further.
LEMMA TailOfTodo ==
    ASSUME TypeOK, NEW c \in Callers, calls[c].todo # <<>>
    PROVE  /\ Tail(calls[c].todo) \in Seq([id: Feeds, row: Row])
           /\ \A i \in DOMAIN Tail(calls[c].todo) :
                /\ i + 1 \in DOMAIN calls[c].todo
                /\ Tail(calls[c].todo)[i] = calls[c].todo[i + 1]
                /\ i \in Nat \ {0}
<1> DEFINE todo == calls[c].todo
<1>1. todo \in Seq([id: Feeds, row: Row])
    BY DEF TypeOK, Call
<1> QED BY <1>1

\* Going on to the next feed advances the run.
LEMMA NextFeedAdvances ==
    ASSUME TypeOK, NEW c \in Callers, NEW call \in Call,
           calls[c].todo # <<>>, call.todo = calls[c].todo, NextFeed(c, call)
    PROVE  \E new \in Call : Advances(c, new)
<1> DEFINE rest == Tail(call.todo)
           pc == IF rest # <<>> THEN "fetch"
                 ELSE IF call.kind = "check" THEN "unlocked" ELSE "idle"
           more == [call EXCEPT !.pc = pc, !.todo = rest, !.first = FALSE,
                                !.body = NoArchive]
           new == IF pc = "idle" THEN Idle ELSE more
<1>1. /\ calls' = [calls EXCEPT ![c] = new]
      /\ feedRunMu' = IF rest = <<>> THEN NoCaller ELSE feedRunMu
    BY DEF NextFeed
<1>2. rest \in Seq([id: Feeds, row: Row])
    BY TailOfTodo
<1>3. pc \in Pcs
    BY DEF Pcs
<1>4. more \in Call /\ more.pc = pc /\ more.todo = rest
    BY <1>2, <1>3 DEF Call
<1>5. new \in Call
    BY <1>4, IdleIsCall
<1>6. Advances(c, new)
    BY <1>1, <1>4, <1>5, IdleIsCall DEF Advances
<1> QED BY <1>5, <1>6

\* So does skipping what is left of a feed.
LEMMA SkipAdvances ==
    ASSUME TypeOK, NEW c \in Callers, calls[c].todo # <<>>, Skip(c)
    PROVE  \E new \in Call : Advances(c, new)
<1>1. calls[c] \in Call
    BY DEF TypeOK
<1> QED BY <1>1, NextFeedAdvances DEF Skip

\* Judging a version advances the run, or sends an apply to fetch again.
LEMMA JudgeMoves ==
    ASSUME TypeOK, NEW c \in Callers, calls[c].todo # <<>>, NEW seen \in Nat, Judge(c, seen)
    PROVE  \E new \in Call : 
             Advances(c, new) \/ (Stays(c, new) /\ new.pc = "refetch")
<1>1. calls[c] \in Call
    BY DEF TypeOK
<1>2. CASE ~News(c, seen)
  <2>1. Skip(c)
      BY <1>2 DEF Judge
  <2>2. PICK new \in Call : Advances(c, new)
      BY <2>1, SkipAdvances
  <2> QED BY <2>2
<1>3. CASE News(c, seen) /\ calls[c].kind = "check"
  <2> DEFINE call == [calls[c] EXCEPT !.out = @ \cup {<<Cur(c).id, seen>>}]
  <2>1. <<Cur(c).id, seen>> \in Feeds \X Nat
      BY CurIsItem
  <2>2. call \in Call /\ call.todo = calls[c].todo
      BY <1>1, <2>1 DEF Call
  <2>3. NextFeed(c, call)
      BY <1>3 DEF Judge
  <2> HIDE DEF call
  <2>4. PICK new \in Call : Advances(c, new)
      BY <2>2, <2>3, NextFeedAdvances
  <2> QED BY <2>4
<1>4. CASE News(c, seen) /\ calls[c].kind # "check"
  <2> DEFINE new == [calls[c] EXCEPT !.pc = "refetch", !.body = NoArchive]
  <2>1. new \in Call /\ new.pc = "refetch" /\ new.todo = calls[c].todo
      BY <1>1 DEF Call, Pcs
  <2>2. calls' = [calls EXCEPT ![c] = new] /\ feedRunMu' = feedRunMu
      BY <1>4 DEF Judge
  <2>3. Stays(c, new)
      BY <2>1, <2>2 DEF Stays, Working, Holding
  <2> QED BY <2>1, <2>3
<1> QED BY <1>2, <1>3, <1>4

\* An archive has a version, and can be held or stored.
LEMMA ArchivesHaveVersions ==
    \A a \in Archives : a.version \in Nat \ {0}
BY FeedsAssumption DEF Archive

\* Every step of a run under way keeps its place or advances it.
LEMMA RunStepMoves ==
    ASSUME Turns, NEW c \in Callers, calls[c].pc \in Working, RunStep(c)
    PROVE  \E new \in Call : Advances(c, new) \/ Stays(c, new)
<1> DEFINE Moves == \E new \in Call : Advances(c, new) \/ Stays(c, new)
<1>1. calls[c] \in Call /\ calls[c].todo # <<>> /\ Cur(c) \in [id: Feeds, row: Row]
    BY CurIsItem DEF Turns, TypeOK, RunsTakeTurns
<1>2. ASSUME Skip(c) PROVE Moves
  <2>1. PICK new \in Call : Advances(c, new)
      BY <1>1, <1>2, SkipAdvances DEF Turns
  <2> QED BY <2>1
<1>3. ASSUME NEW seen \in Nat, Judge(c, seen) PROVE Moves
    BY <1>1, <1>3, JudgeMoves DEF Turns
<1>4. CASE NotModified(c)
  <2>1. Cur(c).row.seen \in Nat
      BY <1>1 DEF Row
  <2> QED BY <1>3, <1>4, <2>1 DEF NotModified
<1>5. CASE Fetch(c)
  <2> DEFINE new == [calls[c] EXCEPT !.pc = "cache", !.body = remote[Cur(c).row.url]]
  <2>1. remote[Cur(c).row.url] \in Archives
      BY <1>1 DEF Turns, TypeOK, Row
  <2>2. new \in Call /\ new.pc = "cache" /\ new.todo = calls[c].todo /\ new.body \in Archives
      BY <1>1, <2>1 DEF Call, Pcs
  <2>3. calls' = [calls EXCEPT ![c] = new] /\ feedRunMu' = feedRunMu
      BY <1>5 DEF Fetch
  <2>4. Stays(c, new)
      BY <2>2, <2>3 DEF Stays, Working, Holding
  <2> QED BY <2>2, <2>4
<1>6. CASE Cache(c)
  <2>1. CASE calls[c].body.readable
    <3> DEFINE new == [calls[c] EXCEPT !.pc = "seen"]
    <3>1. new \in Call /\ new.pc = "seen" /\ new.todo = calls[c].todo /\ new.body = calls[c].body
        BY <1>1 DEF Call, Pcs
    <3>2. calls' = [calls EXCEPT ![c] = new] /\ feedRunMu' = feedRunMu
        BY <1>6, <2>1 DEF Cache, Goto
    <3>3. calls[c].body \in Archives
        BY <1>6 DEF Cache, Turns, RunsTakeTurns, Holding
    <3>4. Stays(c, new)
        BY <3>1, <3>2, <3>3 DEF Stays, Working, Holding
    <3> QED BY <3>1, <3>4
  <2>2. CASE ~calls[c].body.readable
      BY <1>2, <1>6, <2>2 DEF Cache
  <2> QED BY <2>1, <2>2
<1>7. CASE Seen(c)
  <2>1. calls[c].body.version \in Nat
      BY <1>7, ArchivesHaveVersions DEF Seen, Turns, RunsTakeTurns, Holding
  <2>2. Judge(c, calls[c].body.version)
      BY <1>7 DEF Seen
  <2> QED BY <1>3, <2>1, <2>2
<1>8. CASE Refetch(c)
  <2> DEFINE new == [calls[c] EXCEPT !.pc = "recache", !.body = remote[Cur(c).row.url]]
  <2>1. remote[Cur(c).row.url] \in Archives
      BY <1>1 DEF Turns, TypeOK, Row
  <2>2. new \in Call /\ new.pc = "recache" /\ new.todo = calls[c].todo /\ new.body \in Archives
      BY <1>1, <2>1 DEF Call, Pcs
  <2>3. calls' = [calls EXCEPT ![c] = new] /\ feedRunMu' = feedRunMu
      BY <1>8 DEF Refetch
  <2>4. Stays(c, new)
      BY <2>2, <2>3 DEF Stays, Working, Holding
  <2> QED BY <2>2, <2>4
<1>9. CASE Recache(c)
  <2>1. CASE calls[c].body.readable /\ News(c, calls[c].body.version)
    <3> DEFINE new == [calls[c] EXCEPT !.pc = "ops"]
    <3>1. new \in Call /\ new.pc = "ops" /\ new.todo = calls[c].todo /\ new.body = calls[c].body
        BY <1>1 DEF Call, Pcs
    <3>2. calls' = [calls EXCEPT ![c] = new] /\ feedRunMu' = feedRunMu
        BY <1>9, <2>1 DEF Recache, Goto
    <3>3. calls[c].body \in Archives
        BY <1>9 DEF Recache, Turns, RunsTakeTurns, Holding
    <3>4. new.body.version > Cur(c).row.applied
        BY <2>1, <3>1 DEF News
    <3>5. Stays(c, new)
        BY <3>1, <3>2, <3>3, <3>4 DEF Stays, Working, Holding
    <3> QED BY <3>1, <3>5
  <2>2. CASE ~(calls[c].body.readable /\ News(c, calls[c].body.version))
      BY <1>2, <1>9, <2>2 DEF Recache
  <2> QED BY <2>1, <2>2
<1>10. CASE RefuseOps(c)
    BY <1>2, <1>10 DEF RefuseOps
<1>11. CASE RunOps(c)
  <2>1. CASE Goto(c, "stamp") /\ UNCHANGED feedRunMu
    <3> DEFINE new == [calls[c] EXCEPT !.pc = "stamp"]
    <3>1. new \in Call /\ new.pc = "stamp" /\ new.todo = calls[c].todo /\ new.body = calls[c].body
        BY <1>1 DEF Call, Pcs
    <3>2. calls' = [calls EXCEPT ![c] = new] /\ feedRunMu' = feedRunMu
        BY <2>1 DEF Goto
    <3>3. calls[c].body \in Archives
        BY <1>11 DEF RunOps, Turns, RunsTakeTurns, Holding
    <3>4. new.body.version > Cur(c).row.applied
        BY <1>11, <3>1 DEF RunOps, Turns, StampsAreNews
    <3>5. content'[Cur(c).id] = new.body.version
        BY <1>1, <1>11, <3>1 DEF RunOps, Turns, TypeOK
    <3>6. Stays(c, new)
        BY <3>1, <3>2, <3>3, <3>4, <3>5 DEF Stays, Working, Holding
    <3> QED BY <3>1, <3>6
  <2>2. CASE Skip(c)
      BY <1>2, <2>2
  <2> QED BY <1>11, <2>1, <2>2 DEF RunOps
<1>12. CASE Stamp(c)
    BY <1>2, <1>12 DEF Stamp
<1>13. ~ShareAnswer(c)
    BY DEF ShareAnswer, Working
<1> QED
    BY <1>4, <1>5, <1>6, <1>7, <1>8, <1>9, <1>10, <1>11, <1>12, <1>13 DEF RunStep

\* However a run moves, it alone is under way afterwards.
LEMMA MovesKeepTurns ==
    ASSUME Turns, NEW c \in Callers, calls[c].pc \in Working,
           NEW new \in Call, Advances(c, new) \/ Stays(c, new)
    PROVE  /\ calls' \in [Callers -> Call]
           /\ feedRunMu' \in Callers \cup {NoCaller}
           /\ RunsTakeTurns'
           /\ StampsAreNews'
<1>1. /\ calls \in [Callers -> Call]
      /\ calls' = [calls EXCEPT ![c] = new]
    BY DEF Turns, TypeOK, Advances, Stays
<1>2. /\ calls' \in [Callers -> Call]
      /\ calls'[c] = new
      /\ \A d \in Callers \ {c} : calls'[d] = calls[d]
    BY <1>1
<1>3. \A d \in Callers \ {c} : calls[d].pc \notin Working /\ calls[d].todo = <<>>
    BY DEF Turns, RunsTakeTurns
<1>4. feedRunMu = c /\ calls[c].todo # <<>>
    BY DEF Turns, RunsTakeTurns
<1>5. feedRunMu' \in Callers \cup {NoCaller}
    BY <1>4 DEF Advances, Stays
<1>6. RunsTakeTurns'
  <2>1. CASE Advances(c, new)
      BY <1>2, <1>3, <1>4, <2>1 DEF RunsTakeTurns, Advances, Working, Holding
  <2>2. CASE Stays(c, new)
      BY <1>2, <1>3, <1>4, <2>2 DEF RunsTakeTurns, Stays, Working, Holding
  <2> QED BY <2>1, <2>2
<1>7. StampsAreNews'
  <2>1. CASE Advances(c, new)
      BY <1>2, <1>3, <2>1 DEF StampsAreNews, Advances, Working
  <2>2. CASE Stays(c, new)
      BY <1>2, <1>3, <2>2 DEF StampsAreNews, Stays, Working, Cur
  <2> QED BY <2>1, <2>2
<1> QED BY <1>2, <1>5, <1>6, <1>7

-----------------------------------------------------------------------------
(* What a step does to the table                                           *)

\* The stamp of a feed stays as it is, unless the feed is new or deleted.
StampStands(f) ==
    IF rows[f] = NoFeed
    THEN rows'[f] \notin {NoFeed, Deleted} => rows'[f].applied = 0
    ELSE /\ rows'[f] # NoFeed
         /\ rows'[f] # Deleted => Exists(f) /\ rows'[f].applied = rows[f].applied

\* What an UPDATE leaves behind.
LEMMA UpdateTyped ==
    ASSUME TypeOK, NEW f \in Feeds, NEW row, Update(f, row), Exists(f) => row \in Row
    PROVE  /\ rows' \in [Feeds -> Row \cup {NoFeed, Deleted}]
           /\ \A g \in Feeds : g # f => rows'[g] = rows[g]
           /\ rows'[f] = IF Exists(f) THEN row ELSE rows[f]
           /\ \A g \in Feeds : g # f => StampStands(g)
           /\ (Exists(f) => row.applied = rows[f].applied) => StampStands(f)
<1>1. /\ rows' \in [Feeds -> Row \cup {NoFeed, Deleted}]
      /\ \A g \in Feeds : g # f => rows'[g] = rows[g]
      /\ rows'[f] = IF Exists(f) THEN row ELSE rows[f]
    BY DEF Update, TypeOK
<1>2. \A g \in Feeds : g # f => StampStands(g)
    BY <1>1 DEF StampStands
<1>3. ASSUME Exists(f) => row.applied = rows[f].applied
      PROVE  StampStands(f)
    BY <1>1, <1>3, FeedsAssumption DEF StampStands
<1> QED BY <1>1, <1>2, <1>3

\* The table as a step of a run leaves it: only a stamp changes a stamp.
LEMMA RunStepRows ==
    ASSUME Turns, NEW c \in Callers, calls[c].pc \in Working, RunStep(c)
    PROVE  /\ rows' \in [Feeds -> Row \cup {NoFeed, Deleted}]
           /\ \A g \in Feeds : g # Cur(c).id \/ ~Stamp(c) => StampStands(g)
<1> DEFINE f == Cur(c).id
<1>1. f \in Feeds /\ (Exists(f) => rows[f] \in Row)
    BY CurIsItem DEF Turns, TypeOK, RunsTakeTurns
<1>2. TypeOK
    BY DEF Turns
<1>3. ASSUME UNCHANGED rows
      PROVE  /\ rows' \in [Feeds -> Row \cup {NoFeed, Deleted}]
             /\ \A g \in Feeds : StampStands(g)
    BY <1>2, <1>3 DEF TypeOK, StampStands
<1>4. ASSUME StoreValidators(c), calls[c].body \in Archives
      PROVE  /\ rows' \in [Feeds -> Row \cup {NoFeed, Deleted}]
             /\ \A g \in Feeds : StampStands(g)
  <2> DEFINE row == [rows[f] EXCEPT !.cache = calls[c].body]
  <2>1. Exists(f) => row \in Row /\ row.applied = rows[f].applied
      BY <1>1, <1>4 DEF Row
  <2>2. Update(f, row)
      BY <1>4 DEF StoreValidators
  <2> HIDE DEF f, row
  <2> QED BY <1>1, <1>2, <2>1, <2>2, UpdateTyped
<1>5. CASE Cache(c) \/ Recache(c)
  <2>1. StoreValidators(c)
      BY <1>5 DEF Cache, Recache
  <2>2. calls[c].body \in Archives
      BY <1>5 DEF Cache, Recache, Turns, RunsTakeTurns, Holding
  <2> QED BY <1>4, <2>1, <2>2
<1>6. CASE Seen(c)
  <2> DEFINE row == [rows[f] EXCEPT !.seen = calls[c].body.version]
  <2>1. calls[c].body.version \in Nat
      BY <1>6, ArchivesHaveVersions DEF Seen, Turns, RunsTakeTurns, Holding
  <2>2. Exists(f) => row \in Row /\ row.applied = rows[f].applied
      BY <1>1, <2>1 DEF Row
  <2>3. Update(f, row)
      BY <1>6 DEF Seen
  <2> HIDE DEF f, row
  <2> QED BY <1>1, <1>2, <2>2, <2>3, UpdateTyped
<1>7. CASE Stamp(c)
  <2> DEFINE v == calls[c].body.version
             row == [rows[f] EXCEPT !.applied = v, !.seen = v]
  <2>1. v \in Nat
      BY <1>7, ArchivesHaveVersions DEF Stamp, Turns, RunsTakeTurns, Holding
  <2>2. Exists(f) => row \in Row
      BY <1>1, <2>1 DEF Row
  <2>3. Update(f, row)
      BY <1>7 DEF Stamp
  <2>4. \A g \in Feeds : g # f => StampStands(g)
    <3> HIDE DEF f, row
    <3> QED BY <1>1, <1>2, <2>2, <2>3, UpdateTyped
  <2>5. rows' \in [Feeds -> Row \cup {NoFeed, Deleted}]
    <3> HIDE DEF f, row
    <3> QED BY <1>1, <1>2, <2>2, <2>3, UpdateTyped
  <2> QED BY <1>7, <2>4, <2>5
<1>8. CASE NotModified(c) \/ Fetch(c) \/ Refetch(c) \/ RefuseOps(c) \/ RunOps(c)
    BY <1>3, <1>8 DEF NotModified, Fetch, Refetch, RefuseOps, RunOps
<1>9. ~ShareAnswer(c)
    BY DEF ShareAnswer, Working
<1> QED BY <1>5, <1>6, <1>7, <1>8, <1>9 DEF RunStep

-----------------------------------------------------------------------------
(* Type correctness                                                        *)

\* No caller asks or works at first.
LEMMA TurnsInit == Init => Turns
<1> SUFFICES ASSUME Init PROVE Turns
    OBVIOUS
<1>1. TypeOK
    BY FeedsAssumption, IdleIsCall DEF Init, TypeOK
<1>2. RunsTakeTurns
    BY IdleIsCall DEF Init, RunsTakeTurns, Working, Holding
<1>3. StampsAreNews
    BY IdleIsCall DEF Init, StampsAreNews
<1> QED BY <1>1, <1>2, <1>3 DEF Turns

\* Callers that stop working, or start asking, while nobody else is touched.
LEMMA RestKeepsTurns ==
    ASSUME Turns, calls' \in [Callers -> Call], UNCHANGED content,
           \A d \in Callers :
             \/ calls'[d] = calls[d] /\ (calls[d].pc \in Working => feedRunMu' = feedRunMu)
             \/ calls'[d].pc \notin Working /\ calls'[d].todo = <<>>
    PROVE  RunsTakeTurns' /\ StampsAreNews'
BY DEF Turns, RunsTakeTurns, StampsAreNews, Working, Holding, Cur

\* A step of a run keeps the types.
LEMMA TurnsRunStep ==
    ASSUME Turns, NEW c \in Callers, calls[c].pc \in Working, RunStep(c)
    PROVE  Turns'
<1>1. PICK new \in Call : Advances(c, new) \/ Stays(c, new)
    BY RunStepMoves
<1>2. /\ calls' \in [Callers -> Call]
      /\ feedRunMu' \in Callers \cup {NoCaller}
      /\ RunsTakeTurns'
      /\ StampsAreNews'
    BY <1>1, MovesKeepTurns
<1>3. rows' \in [Feeds -> Row \cup {NoFeed, Deleted}]
    BY RunStepRows
<1>4. content' \in [Feeds -> Nat]
  <2>1. CASE RunOps(c)
    <3>1. calls[c].body.version \in Nat
        BY <2>1, ArchivesHaveVersions DEF RunOps, Turns, RunsTakeTurns, Holding
    <3> QED BY <2>1, <3>1 DEF RunOps, Turns, TypeOK
  <2>2. CASE ~RunOps(c)
      BY <2>2 DEF RunStep, NotModified, Fetch, Cache, Seen, Refetch, Recache,
                  RefuseOps, Stamp, ShareAnswer, Turns, TypeOK
  <2> QED BY <2>1, <2>2
<1>5. /\ remote' \in [Urls -> Archives]
      /\ feedCheck' \in Callers \cup {NoCaller}
      /\ edits' \in 0..MaxTrouble /\ failures' \in 0..MaxTrouble
    BY DEF RunStep, NotModified, Fetch, Cache, Seen, Refetch, Recache,
           RefuseOps, RunOps, Stamp, ShareAnswer, Turns, TypeOK
<1> QED BY <1>2, <1>3, <1>4, <1>5 DEF Turns, TypeOK

\* The rows a run reads are in the table as it reads them.
LEMMA TakeLockReads ==
    ASSUME Turns, NEW c \in Callers, TakeLock(c)
    PROVE  /\ feedRunMu = NoCaller
           /\ \E new \in Call :
                /\ calls' = [calls EXCEPT ![c] = new]
                /\ \/ new.pc \notin Working /\ new.todo = <<>> /\ feedRunMu' = NoCaller
                   \/ /\ new.pc = "fetch" /\ new.todo # <<>> /\ feedRunMu' = c
                      /\ \A i \in DOMAIN new.todo :
                           /\ Exists(new.todo[i].id)
                           /\ new.todo[i].row = rows[new.todo[i].id]
                      /\ NamesOnce => \A i, j \in DOMAIN new.todo :
                           i # j => new.todo[i].id # new.todo[j].id
<1>1. feedRunMu = NoCaller /\ ReadRows(c) /\ At(c, "lock") /\ TypeOK /\ calls[c] \in Call
    BY DEF TakeLock, Turns, TypeOK
<1>2. calls[c].todo = <<>>
    BY <1>1 DEF Turns, RunsTakeTurns, Working
<1>3. calls[c].ids \in IdLists \cup {<<>>}
    BY <1>1 DEF Call
<1> DEFINE List(ids) == [i \in DOMAIN ids |-> [id |-> ids[i], row |-> rows[ids[i]]]]
<1>4. PICK ids \in Selected(calls[c].ids) :
        IF List(ids) = <<>>
        THEN /\ calls' = [calls EXCEPT ![c] =
                  IF calls[c].kind = "check" THEN [@ EXCEPT !.pc = "unlocked"]
                                             ELSE Idle]
             /\ UNCHANGED feedRunMu
        ELSE /\ calls' = [calls EXCEPT ![c] = [@ EXCEPT !.pc = "fetch", !.todo = List(ids)]]
             /\ feedRunMu' = c
    BY <1>1 DEF ReadRows
<1>5. ids \in Seq(Feeds) /\ \A i \in DOMAIN ids : Exists(ids[i])
    BY <1>1, <1>3, SelectedExist
<1>6. \A i \in DOMAIN ids : ids[i] \in Feeds /\ rows[ids[i]] \in Row
    BY <1>1, <1>5 DEF TypeOK
<1>7. List(ids) \in Seq([id: Feeds, row: Row])
  <2>1. Len(ids) \in Nat /\ DOMAIN ids = 1..Len(ids)
      BY <1>5
  <2>2. List(ids) \in [1..Len(ids) -> [id: Feeds, row: Row]]
      BY <1>6, <2>1
  <2> QED BY <2>1, <2>2
<1>8. NamesOnce => \A i, j \in DOMAIN ids : i # j => ids[i] # ids[j]
    BY <1>1, <1>3, SelectedOnce
<1>9. CASE List(ids) = <<>>
  <2> DEFINE new == IF calls[c].kind = "check" THEN [calls[c] EXCEPT !.pc = "unlocked"] ELSE Idle
  <2>1. new \in Call /\ new.pc \notin Working /\ new.todo = <<>>
      BY <1>1, <1>2, IdleIsCall DEF Call, Pcs, Working
  <2>2. calls' = [calls EXCEPT ![c] = new] /\ feedRunMu' = NoCaller
      BY <1>1, <1>4, <1>9
  <2> HIDE DEF new
  <2> QED BY <1>1, <2>1, <2>2
<1>10. CASE List(ids) # <<>>
  <2> DEFINE new == [calls[c] EXCEPT !.pc = "fetch", !.todo = List(ids)]
  <2>1. new \in Call /\ new.pc = "fetch" /\ new.todo = List(ids)
    <3> HIDE DEF List
    <3> QED BY <1>1, <1>7 DEF Call, Pcs
  <2>2. calls' = [calls EXCEPT ![c] = new] /\ feedRunMu' = c
      BY <1>4, <1>10
  <2>3. \A i \in DOMAIN new.todo :
          /\ i \in DOMAIN ids
          /\ new.todo[i].id = ids[i]
          /\ new.todo[i].row = rows[new.todo[i].id]
      BY <2>1
  <2> HIDE DEF new
  <2>4. \A i \in DOMAIN new.todo : Exists(new.todo[i].id)
      BY <1>5, <2>3
  <2>5. NamesOnce => \A i, j \in DOMAIN new.todo : i # j => new.todo[i].id # new.todo[j].id
      BY <1>8, <2>3
  <2> QED BY <1>1, <1>10, <2>1, <2>2, <2>3, <2>4, <2>5
<1> QED BY <1>9, <1>10

\* Who is working, and what each request is, keep their types in any step.
LEMMA TurnsStep == Turns /\ [Next]_vars => Turns'
<1> SUFFICES ASSUME Turns, [Next]_vars PROVE Turns'
    OBVIOUS
<1> USE FeedsAssumption DEF Turns
<1>1. ASSUME NEW f \in Feeds, NEW url \in Urls, CreateFeed(f, url)
      PROVE  Turns'
  <2>1. [url |-> url, applied |-> 0, seen |-> 0, cache |-> NoArchive] \in Row
      BY DEF Row
  <2>2. TypeOK'
      BY <1>1, <2>1 DEF CreateFeed, TypeOK
  <2>3. RunsTakeTurns' /\ StampsAreNews'
      BY <1>1 DEF CreateFeed, RunsTakeTurns, StampsAreNews, Cur
  <2> QED BY <2>2, <2>3
<1>2. ASSUME NEW f \in Feeds, NEW url \in Urls, EditUrl(f, url)
      PROVE  Turns'
  <2>1. rows[f] \in Row
      BY <1>2 DEF EditUrl, TypeOK
  <2>2. [rows[f] EXCEPT !.url = url, !.seen = 0, !.cache = NoArchive] \in Row
      BY <2>1 DEF Row
  <2>3. TypeOK'
      BY <1>2, <2>2 DEF EditUrl, TypeOK
  <2>4. RunsTakeTurns' /\ StampsAreNews'
      BY <1>2 DEF EditUrl, RunsTakeTurns, StampsAreNews, Cur
  <2> QED BY <2>3, <2>4
<1>3. ASSUME NEW f \in Feeds, DeleteFeed(f)
      PROVE  Turns'
  <2>1. TypeOK'
      BY <1>3 DEF DeleteFeed, TypeOK
  <2>2. RunsTakeTurns' /\ StampsAreNews'
      BY <1>3 DEF DeleteFeed, RunsTakeTurns, StampsAreNews, Cur
  <2> QED BY <2>1, <2>2
<1>4. ASSUME NEW url \in Urls, NEW a \in Archives, Publish(url, a)
      PROVE  Turns'
  <2>1. TypeOK'
      BY <1>4 DEF Publish, TypeOK
  <2>2. RunsTakeTurns' /\ StampsAreNews'
      BY <1>4 DEF Publish, RunsTakeTurns, StampsAreNews, Cur
  <2> QED BY <2>1, <2>2
<1>5. ASSUME NEW c \in Checkers, AskCheck(c)
      PROVE  Turns'
  <2>1. PICK pc \in {"lock", "joined"} :
          calls' = [calls EXCEPT ![c] = Request("check", pc, <<>>)]
      BY <1>5 DEF AskCheck
  <2> DEFINE new == Request("check", pc, <<>>)
  <2>2. new \in Call /\ new.pc \notin Working /\ new.todo = <<>>
      BY DEF Request, Call, Pcs, Working
  <2>3. c \in Callers
      BY DEF Callers
  <2> HIDE DEF new
  <2>4. calls' \in [Callers -> Call]
      BY <2>1, <2>2 DEF TypeOK, new
  <2>5. RunsTakeTurns' /\ StampsAreNews'
    <3>1. feedRunMu' = feedRunMu /\ content' = content
        BY <1>5 DEF AskCheck
    <3>2. calls'[c] = new /\ \A d \in Callers \ {c} : calls'[d] = calls[d]
        BY <2>1, <2>3 DEF TypeOK, new
    <3> QED BY <2>2, <2>4, <3>1, <3>2, RestKeepsTurns
  <2>6. feedCheck' \in Callers \cup {NoCaller}
      BY <1>5, <2>3 DEF AskCheck, TypeOK
  <2>7. TypeOK'
      BY <1>5, <2>4, <2>6 DEF AskCheck, TypeOK
  <2> QED BY <2>5, <2>7
<1>6. ASSUME NEW c \in Appliers, NEW ids \in IdLists, AskApply(c, ids)
      PROVE  Turns'
  <2> DEFINE new == Request("apply", "lock", ids)
  <2>1. new \in Call /\ new.pc \notin Working /\ new.todo = <<>>
      BY DEF Request, Call, Pcs, Working
  <2>2. c \in Callers
      BY DEF Callers
  <2>3. calls' = [calls EXCEPT ![c] = new]
      BY <1>6 DEF AskApply
  <2> HIDE DEF new
  <2>4. calls' \in [Callers -> Call]
      BY <2>1, <2>3 DEF TypeOK
  <2>5. RunsTakeTurns' /\ StampsAreNews'
    <3>1. feedRunMu' = feedRunMu /\ content' = content
        BY <1>6 DEF AskApply
    <3>2. calls'[c] = new /\ \A d \in Callers \ {c} : calls'[d] = calls[d]
        BY <2>2, <2>3 DEF TypeOK
    <3> QED BY <2>1, <2>4, <3>1, <3>2, RestKeepsTurns
  <2>6. TypeOK'
      BY <1>6, <2>4 DEF AskApply, TypeOK
  <2> QED BY <2>5, <2>6
<1>7. ASSUME NEW c \in Callers, TakeLock(c)
      PROVE  Turns'
  <2>1. PICK new \in Call :
          /\ calls' = [calls EXCEPT ![c] = new]
          /\ \/ new.pc \notin Working /\ new.todo = <<>> /\ feedRunMu' = NoCaller
             \/ new.pc = "fetch" /\ new.todo # <<>> /\ feedRunMu' = c
      BY <1>7, TakeLockReads
  <2>2. feedRunMu = NoCaller /\ content' = content
      BY <1>7 DEF TakeLock
  <2>3. \A d \in Callers : calls[d].pc \notin Working /\ calls[d].todo = <<>>
      BY <2>2 DEF RunsTakeTurns
  <2>4. /\ calls' \in [Callers -> Call]
        /\ calls'[c] = new
        /\ \A d \in Callers \ {c} : calls'[d] = calls[d]
      BY <2>1 DEF TypeOK
  <2>5. RunsTakeTurns'
      BY <2>1, <2>3, <2>4 DEF RunsTakeTurns, Working, Holding
  <2>6. StampsAreNews'
      BY <2>1, <2>3, <2>4 DEF StampsAreNews, Working
  <2>7. TypeOK'
      BY <1>7, <2>1, <2>4 DEF TakeLock, TypeOK
  <2> QED BY <2>5, <2>6, <2>7
<1>8. ASSUME NEW c \in Callers, RunStep(c)
      PROVE  Turns'
  <2>1. CASE calls[c].pc \in Working
      BY <1>8, <2>1, TurnsRunStep
  <2>2. CASE calls[c].pc \notin Working
    <3>1. ShareAnswer(c)
        BY <1>8, <2>2 DEF RunStep, NotModified, Fetch, Cache, Seen, Refetch, Recache,
                          RefuseOps, RunOps, Stamp, Working
    <3>2. calls' \in [Callers -> Call]
        BY <3>1, IdleIsCall DEF ShareAnswer, TypeOK
    <3>3. RunsTakeTurns' /\ StampsAreNews'
      <4>1. content' = content /\ feedRunMu' = feedRunMu
          BY <3>1 DEF ShareAnswer
      <4>2. \A d \in Callers :
              \/ calls'[d] = calls[d]
              \/ calls'[d].pc \notin Working /\ calls'[d].todo = <<>>
          BY <3>1, IdleIsCall DEF ShareAnswer, Working
      <4> QED BY <3>2, <4>1, <4>2, RestKeepsTurns
    <3>4. TypeOK'
        BY <3>1, <3>2 DEF ShareAnswer, TypeOK
    <3> QED BY <3>3, <3>4
  <2> QED BY <2>1, <2>2
<1>9. ASSUME NEW c \in Callers, HangUp(c)
      PROVE  Turns'
  <2> DEFINE new == [calls[c] EXCEPT !.gone = TRUE]
  <2>1. /\ new \in Call
        /\ new.pc = calls[c].pc /\ new.todo = calls[c].todo /\ new.body = calls[c].body
      BY DEF TypeOK, Call
  <2>2. calls' = [calls EXCEPT ![c] = new] /\ feedRunMu' = feedRunMu /\ content' = content
      BY <1>9 DEF HangUp
  <2> HIDE DEF new
  <2>3. calls' \in [Callers -> Call] /\ calls'[c] = new
        /\ \A d \in Callers \ {c} : calls'[d] = calls[d]
      BY <2>1, <2>2 DEF TypeOK
  <2>4. RunsTakeTurns' /\ StampsAreNews'
      BY <2>1, <2>2, <2>3 DEF RunsTakeTurns, StampsAreNews, Cur
  <2>5. TypeOK'
      BY <1>9, <2>3 DEF HangUp, TypeOK
  <2> QED BY <2>4, <2>5
<1>10. ASSUME NEW c \in Callers, Abandon(c)
       PROVE  Turns'
  <2>1. calls[c].pc \in Working
      BY <1>10 DEF Abandon, Working
  <2>2. \A d \in Callers \ {c} : calls[d].pc \notin Working
      BY <2>1 DEF RunsTakeTurns
  <2>3. calls' \in [Callers -> Call] /\ calls'[c] = Idle
        /\ \A d \in Callers \ {c} : calls'[d] = calls[d]
      BY <1>10, IdleIsCall DEF Abandon, TypeOK
  <2>4. Idle.pc \notin Working /\ Idle.todo = <<>>
      BY IdleIsCall DEF Working
  <2>5. content' = content
      BY <1>10 DEF Abandon
  <2>6. RunsTakeTurns' /\ StampsAreNews'
      BY <2>2, <2>3, <2>4, <2>5, RestKeepsTurns
  <2>7. TypeOK'
      BY <1>10, <2>3 DEF Abandon, TypeOK
  <2> QED BY <2>6, <2>7
<1>11. ASSUME NEW c \in Callers, StepFails(c)
       PROVE  Turns'
  <2>1. calls[c].pc \in Working /\ Skip(c)
      BY <1>11 DEF StepFails, Working
  <2>2. calls[c].todo # <<>>
      BY <2>1 DEF RunsTakeTurns
  <2>3. PICK new \in Call : Advances(c, new)
      BY <2>1, <2>2, SkipAdvances
  <2>4. /\ calls' \in [Callers -> Call]
        /\ feedRunMu' \in Callers \cup {NoCaller}
        /\ RunsTakeTurns'
        /\ StampsAreNews'
      BY <2>1, <2>3, MovesKeepTurns
  <2>5. TypeOK'
      BY <1>11, <2>4 DEF StepFails, TypeOK
  <2> QED BY <2>4, <2>5
<1>12. CASE Crash
  <2>1. calls' \in [Callers -> Call] /\ \A d \in Callers : calls'[d] = Idle
      BY <1>12, IdleIsCall DEF Crash
  <2>2. Idle.pc \notin Working /\ Idle.todo = <<>>
      BY IdleIsCall DEF Working
  <2>3. content' = content
      BY <1>12 DEF Crash
  <2>4. RunsTakeTurns' /\ StampsAreNews'
      BY <2>1, <2>2, <2>3, RestKeepsTurns
  <2>5. TypeOK'
      BY <1>12, <2>1 DEF Crash, TypeOK
  <2> QED BY <2>4, <2>5
<1>13. CASE UNCHANGED vars
    BY <1>13 DEF vars, TypeOK, RunsTakeTurns, StampsAreNews, Cur
<1> QED
    BY <1>1, <1>2, <1>3, <1>4, <1>5, <1>6, <1>7, <1>8, <1>9, <1>10, <1>11, <1>12, <1>13 DEF Next

\* TypeOK: every variable keeps its type, whatever is asked, fails or is cut
\* short; with it, only the caller that holds the lock works on feeds.
THEOREM TypeSafety == Spec => []TypeOK
<1>1. Init => Turns
    BY TurnsInit
<1>2. Turns /\ [Next]_vars => Turns'
    BY TurnsStep
<1>3. Turns => TypeOK
    BY DEF Turns
<1> QED BY <1>1, <1>2, <1>3, PTL DEF Spec

-----------------------------------------------------------------------------
(* Stamps                                                                  *)

\* Stamps that stand stay current for the runs that still rest on them.
LEMMA ListsKept ==
    ASSUME TypeOK, ListsHoldEachOnce, StampsAreCurrent,
           \A f \in Feeds : StampStands(f),
           \A d \in Callers : calls'[d].todo \in {calls[d].todo, <<>>}
    PROVE  ListsHoldEachOnce' /\ StampsAreCurrent'
<1> SUFFICES ASSUME NEW d \in Callers, calls'[d].todo = calls[d].todo,
                    NEW i \in DOMAIN calls[d].todo
             PROVE  LET item == calls[d].todo[i] IN
                    /\ rows'[item.id] # NoFeed
                    /\ \A j \in DOMAIN calls[d].todo : i # j => item.id # calls[d].todo[j].id
                    /\ rows'[item.id] # Deleted => rows'[item.id].applied = item.row.applied
    BY DEF ListsHoldEachOnce, StampsAreCurrent
<1> DEFINE item == calls[d].todo[i]
<1>1. item \in [id: Feeds, row: Row]
    BY ItemsOfTodo
<1>2. rows[item.id] # NoFeed /\ (Exists(item.id) => rows[item.id].applied = item.row.applied)
    BY DEF ListsHoldEachOnce, StampsAreCurrent
<1>3. \A j \in DOMAIN calls[d].todo : i # j => item.id # calls[d].todo[j].id
    BY DEF ListsHoldEachOnce
<1>4. item.id \in Feeds
    BY <1>1
<1> HIDE DEF item
<1>5. rows'[item.id] # NoFeed /\ (rows'[item.id] # Deleted => rows'[item.id].applied = item.row.applied)
  <2>1. PICK g \in Feeds : g = item.id
      BY <1>4
  <2>2. StampStands(g)
      OBVIOUS
  <2> QED BY <1>2, <2>1, <2>2 DEF StampStands
<1> QED BY <1>3, <1>5 DEF item

\* A run that goes on keeps the rest of its list current, although the row it
\* was at was stamped.
LEMMA ListsAdvance ==
    ASSUME Turns, ListsHoldEachOnce, StampsAreCurrent,
           NEW c \in Callers, calls[c].pc \in Working, NEW new \in Call, Advances(c, new),
           \A f \in Feeds : f # Cur(c).id => StampStands(f)
    PROVE  ListsHoldEachOnce' /\ StampsAreCurrent'
<1>1. TypeOK /\ calls[c].todo # <<>>
    BY DEF Turns, RunsTakeTurns
<1>2. \A d \in Callers \ {c} : calls'[d] = calls[d] /\ calls[d].todo = <<>>
    BY DEF Advances, Turns, RunsTakeTurns, TypeOK
<1>3. calls'[c] = new
    BY DEF Advances, Turns, TypeOK
<1> SUFFICES ASSUME new.todo = Tail(calls[c].todo), NEW i \in DOMAIN new.todo
             PROVE  LET item == new.todo[i] IN
                    /\ rows'[item.id] # NoFeed
                    /\ \A j \in DOMAIN new.todo : i # j => item.id # new.todo[j].id
                    /\ rows'[item.id] # Deleted => rows'[item.id].applied = item.row.applied
    BY <1>2, <1>3 DEF ListsHoldEachOnce, StampsAreCurrent, Advances
<1> DEFINE item == new.todo[i]
<1>4. /\ \A j \in DOMAIN new.todo : /\ j \in Nat \ {0}
                                   /\ j + 1 \in DOMAIN calls[c].todo
                                   /\ new.todo[j] = calls[c].todo[j + 1]
      /\ 1 \in DOMAIN calls[c].todo
      /\ Cur(c) = calls[c].todo[1]
    BY <1>1, TailOfTodo, CurIsItem
<1>5. item \in [id: Feeds, row: Row]
    BY <1>1, <1>4, ItemsOfTodo
<1>6. \A j \in DOMAIN new.todo : i # j => item.id # new.todo[j].id
  <2> TAKE j \in DOMAIN new.todo
  <2> HAVE i # j
  <2>1. i + 1 # j + 1
      BY <1>4
  <2> QED BY <1>4, <2>1 DEF ListsHoldEachOnce
<1>7. item.id # Cur(c).id
  <2>1. i + 1 # 1
      BY <1>4
  <2> QED BY <1>4, <2>1 DEF ListsHoldEachOnce
<1>8. rows[item.id] # NoFeed /\ (Exists(item.id) => rows[item.id].applied = item.row.applied)
    BY <1>4 DEF ListsHoldEachOnce, StampsAreCurrent
<1>9. StampStands(item.id)
    BY <1>5, <1>7
<1> HIDE DEF item
<1>10. rows'[item.id] # NoFeed /\ (rows'[item.id] # Deleted => rows'[item.id].applied = item.row.applied)
    BY <1>8, <1>9 DEF StampStands
<1> QED BY <1>6, <1>10 DEF item

\* What is installed stays at its stamps or above while those stand.
LEMMA ContentKept ==
    ASSUME TypeOK, ContentNotUnderStamp, \A f \in Feeds : StampStands(f),
           \A f \in Feeds : content'[f] \in Nat /\ (Exists(f) => content'[f] >= rows[f].applied)
    PROVE  ContentNotUnderStamp'
BY DEF TypeOK, ContentNotUnderStamp, StampStands

\* Nothing but stamping changes a stamp.
LEMMA StampsStand ==
    ASSUME Turns, [Next]_vars, \A c \in Callers : ~Stamp(c)
    PROVE  \A f \in Feeds : StampStands(f)
<1> USE FeedsAssumption DEF Turns
<1>1. ASSUME UNCHANGED rows PROVE \A f \in Feeds : StampStands(f)
    BY <1>1 DEF StampStands
<1>2. ASSUME NEW f \in Feeds, NEW url \in Urls, CreateFeed(f, url)
      PROVE  \A g \in Feeds : StampStands(g)
    BY <1>2 DEF CreateFeed, StampStands, TypeOK
<1>3. ASSUME NEW f \in Feeds, NEW url \in Urls, EditUrl(f, url)
      PROVE  \A g \in Feeds : StampStands(g)
  <2> DEFINE row == [rows[f] EXCEPT !.url = url, !.seen = 0, !.cache = NoArchive]
  <2>1. rows[f] \in Row
      BY <1>3 DEF EditUrl, TypeOK
  <2>2. row \in Row /\ row.applied = rows[f].applied
      BY <2>1 DEF Row
  <2>3. rows' = [rows EXCEPT ![f] = row]
      BY <1>3 DEF EditUrl
  <2> HIDE DEF row
  <2> QED BY <2>1, <2>2, <2>3 DEF StampStands, TypeOK
<1>4. ASSUME NEW f \in Feeds, DeleteFeed(f)
      PROVE  \A g \in Feeds : StampStands(g)
    BY <1>4 DEF DeleteFeed, StampStands, TypeOK
<1>5. ASSUME NEW c \in Callers, RunStep(c)
      PROVE  \A g \in Feeds : StampStands(g)
  <2>1. CASE calls[c].pc \in Working
      BY <1>5, <2>1, RunStepRows
  <2>2. CASE calls[c].pc \notin Working
      BY <1>1, <1>5, <2>2 DEF RunStep, NotModified, Fetch, Cache, Seen, Refetch, Recache,
                              RefuseOps, RunOps, Stamp, ShareAnswer, Working
  <2> QED BY <2>1, <2>2
<1>6. ASSUME NEW c \in Callers, TakeLock(c) \/ HangUp(c) \/ Abandon(c) \/ StepFails(c)
      PROVE  \A g \in Feeds : StampStands(g)
    BY <1>1, <1>6 DEF TakeLock, HangUp, Abandon, StepFails
<1>7. ASSUME NEW url \in Urls, NEW a \in Archives, Publish(url, a)
      PROVE  \A g \in Feeds : StampStands(g)
    BY <1>1, <1>7 DEF Publish
<1>8. ASSUME NEW c \in Checkers, AskCheck(c)
      PROVE  \A g \in Feeds : StampStands(g)
    BY <1>1, <1>8 DEF AskCheck
<1>9. ASSUME NEW c \in Appliers, NEW ids \in IdLists, AskApply(c, ids)
      PROVE  \A g \in Feeds : StampStands(g)
    BY <1>1, <1>9 DEF AskApply
<1>10. CASE Crash \/ UNCHANGED vars
    BY <1>1, <1>10 DEF Crash, vars
<1> QED BY <1>2, <1>3, <1>4, <1>5, <1>6, <1>7, <1>8, <1>9, <1>10 DEF Next

\* A stamp is written from news about its feed, which has run.
LEMMA StampMovesForward ==
    ASSUME IInv, NEW c \in Callers, Stamp(c)
    PROVE  LET f == Cur(c).id IN
           /\ f \in Feeds
           /\ content' = content
           /\ IF Exists(f)
              THEN /\ rows'[f].applied > rows[f].applied
                   /\ content[f] = rows'[f].applied
                   /\ rows'[f].applied \in Nat
              ELSE rows'[f] = rows[f]
<1> DEFINE f == Cur(c).id
           v == calls[c].body.version
           row == [rows[f] EXCEPT !.applied = v, !.seen = v]
<1>1. /\ TypeOK /\ calls[c].todo # <<>>
      /\ content' = content
      /\ v \in Nat
    BY ArchivesHaveVersions DEF Stamp, IInv, Turns, RunsTakeTurns, Working, Holding
<1>2. /\ f \in Feeds
      /\ 1 \in DOMAIN calls[c].todo /\ Cur(c) = calls[c].todo[1]
    BY <1>1, CurIsItem
<1>3. content[f] = v /\ v > Cur(c).row.applied
    BY DEF Stamp, IInv, Turns, StampsAreNews
<1>4. Exists(f) => rows[f].applied = Cur(c).row.applied
    BY <1>2 DEF IInv, StampsAreCurrent
<1>5. rows' = IF Exists(f) THEN [rows EXCEPT ![f] = row] ELSE rows
    BY DEF Stamp, Update
<1>6. Exists(f) => rows[f] \in Row
    BY <1>1, <1>2 DEF TypeOK
<1>7. Exists(f) => row.applied = v
    BY <1>6 DEF Row
<1>8. rows'[f] = IF Exists(f) THEN row ELSE rows[f]
    BY <1>1, <1>2, <1>5 DEF TypeOK
<1> HIDE DEF f, row, v
<1> QED BY <1>1, <1>2, <1>3, <1>4, <1>7, <1>8 DEF f

\* Content is replaced by news only.
LEMMA ContentStays ==
    ASSUME IInv, [Next]_vars
    PROVE  \A f \in Feeds : content'[f] \in Nat /\ (Exists(f) => content'[f] >= rows[f].applied)
<1>1. TypeOK
    BY DEF IInv, Turns
<1>2. \A f \in Feeds : content[f] \in Nat /\ (Exists(f) => content[f] >= rows[f].applied)
    BY <1>1 DEF TypeOK, IInv, ContentNotUnderStamp
<1>3. CASE content' = content
    BY <1>2, <1>3
<1>4. ASSUME NEW c \in Callers, RunOps(c)
      PROVE  \A f \in Feeds : content'[f] \in Nat /\ (Exists(f) => content'[f] >= rows[f].applied)
  <2> DEFINE f == Cur(c).id
             v == calls[c].body.version
  <2>1. /\ calls[c].todo # <<>>
        /\ v \in Nat
        /\ v > Cur(c).row.applied
      BY <1>4, ArchivesHaveVersions
      DEF RunOps, IInv, Turns, RunsTakeTurns, StampsAreNews, Working, Holding
  <2>2. /\ f \in Feeds /\ Cur(c).row \in Row
        /\ 1 \in DOMAIN calls[c].todo /\ Cur(c) = calls[c].todo[1]
      BY <1>1, <2>1, CurIsItem
  <2>3. Exists(f) => rows[f].applied = Cur(c).row.applied
      BY <2>2 DEF IInv, StampsAreCurrent
  <2>4. Cur(c).row.applied \in Nat
      BY <2>2 DEF Row
  <2>5. content' = [content EXCEPT ![f] = v]
      BY <1>4 DEF RunOps
  <2>6. content \in [Feeds -> Nat]
      BY <1>1 DEF TypeOK
  <2> HIDE DEF f, v
  <2>7. Exists(f) => v >= rows[f].applied
      BY <2>1, <2>3, <2>4
  <2> QED BY <1>2, <2>1, <2>5, <2>6, <2>7
<1>5. content' = content \/ \E c \in Callers : RunOps(c)
    BY DEF Next, CreateFeed, EditUrl, DeleteFeed, Publish, AskCheck, AskApply, TakeLock,
           RunStep, NotModified, Fetch, Cache, Seen, Refetch, Recache, RefuseOps, Stamp,
           ShareAnswer, HangUp, Abandon, StepFails, Crash, vars
<1> QED BY <1>3, <1>4, <1>5

\* Stamping keeps the rest of the list current.
LEMMA StampKeepsIInv ==
    ASSUME IInv, NEW c \in Callers, Stamp(c)
    PROVE  ListsHoldEachOnce' /\ StampsAreCurrent' /\ ContentNotUnderStamp'
<1>1. Turns /\ TypeOK /\ calls[c].pc \in Working /\ calls[c].todo # <<>> /\ RunStep(c)
    BY DEF IInv, Turns, RunsTakeTurns, Stamp, Working, RunStep
<1>2. PICK new \in Call : Advances(c, new)
    BY <1>1, SkipAdvances DEF Stamp
<1>3. \A f \in Feeds : f # Cur(c).id => StampStands(f)
    BY <1>1, RunStepRows
<1>4. ListsHoldEachOnce' /\ StampsAreCurrent'
    BY <1>1, <1>2, <1>3, ListsAdvance DEF IInv
<1>5. ContentNotUnderStamp'
  <2>1. PICK f \in Feeds : f = Cur(c).id
      BY StampMovesForward
  <2>2. /\ content' = content
        /\ IF Exists(f) THEN content[f] = rows'[f].applied /\ rows'[f].applied \in Nat
                        ELSE rows'[f] = rows[f]
      BY <2>1, StampMovesForward
  <2>3. \A g \in Feeds : content[g] \in Nat /\ (Exists(g) => content[g] >= rows[g].applied)
      BY <1>1 DEF TypeOK, IInv, ContentNotUnderStamp
  <2>4. \A g \in Feeds : g # f => StampStands(g)
      BY <1>3, <2>1
  <2> QED BY <2>2, <2>3, <2>4 DEF ContentNotUnderStamp, StampStands
<1> QED BY <1>4, <1>5

\* A run that takes the lock reads stamps as they are.
LEMMA TakeLockKeepsIInv ==
    ASSUME NamesOnce, IInv, NEW c \in Callers, TakeLock(c)
    PROVE  ListsHoldEachOnce' /\ StampsAreCurrent'
<1>1. Turns /\ TypeOK /\ calls \in [Callers -> Call] /\ rows' = rows
    BY DEF IInv, Turns, TypeOK, TakeLock
<1>2. PICK new \in Call :
        /\ calls' = [calls EXCEPT ![c] = new]
        /\ \/ new.todo = <<>>
           \/ /\ \A i \in DOMAIN new.todo :
                    /\ Exists(new.todo[i].id)
                    /\ new.todo[i].row = rows[new.todo[i].id]
              /\ \A i, j \in DOMAIN new.todo :
                    i # j => new.todo[i].id # new.todo[j].id
    BY <1>1, TakeLockReads
<1>3. feedRunMu = NoCaller
    BY DEF TakeLock
<1>4. \A d \in Callers : calls[d].todo = <<>>
    BY <1>1, <1>3, FeedsAssumption DEF Turns, RunsTakeTurns
<1>5. calls'[c] = new /\ \A d \in Callers \ {c} : calls'[d].todo = <<>>
    BY <1>1, <1>2, <1>4
<1> QED BY <1>1, <1>2, <1>5 DEF ListsHoldEachOnce, StampsAreCurrent

\* A run that moves, stamping apart, keeps what it has left current.
LEMMA MoveKeepsLists ==
    ASSUME IInv, NEW c \in Callers, calls[c].pc \in Working,
           NEW new \in Call, Advances(c, new) \/ Stays(c, new),
           \A f \in Feeds : StampStands(f)
    PROVE  ListsHoldEachOnce' /\ StampsAreCurrent'
<1>1. Turns /\ TypeOK /\ calls \in [Callers -> Call]
    BY DEF IInv, Turns, TypeOK
<1>2. CASE Advances(c, new)
    BY <1>1, <1>2, ListsAdvance DEF IInv
<1>3. CASE Stays(c, new)
  <2>1. \A d \in Callers : calls'[d].todo = calls[d].todo
      BY <1>1, <1>3 DEF Stays
  <2> QED BY <1>1, <2>1, ListsKept DEF IInv
<1> QED BY <1>2, <1>3

\* The stamps and what they stand for hold on in every step.
LEMMA IInvStep ==
    ASSUME NamesOnce, IInv, [Next]_vars
    PROVE  IInv'
<1>1. Turns' /\ Turns /\ TypeOK
    BY TurnsStep DEF IInv, Turns
<1>2. ASSUME NEW c \in Callers, Stamp(c) PROVE IInv'
    BY <1>1, <1>2, StampKeepsIInv DEF IInv
<1>3. CASE \A c \in Callers : ~Stamp(c)
  <2>1. \A f \in Feeds : StampStands(f)
      BY <1>1, <1>3, StampsStand
  <2>2. ContentNotUnderStamp'
      BY <1>1, <2>1, ContentStays, ContentKept DEF IInv
  <2>3. ASSUME \A d \in Callers : calls'[d].todo \in {calls[d].todo, <<>>}
        PROVE  ListsHoldEachOnce' /\ StampsAreCurrent'
      BY <1>1, <2>1, <2>3, ListsKept DEF IInv
  <2>4. ASSUME NEW c \in Callers, RunStep(c)
        PROVE  ListsHoldEachOnce' /\ StampsAreCurrent'
    <3>1. CASE calls[c].pc \in Working
      <4>1. PICK new \in Call : Advances(c, new) \/ Stays(c, new)
          BY <1>1, <2>4, <3>1, RunStepMoves
      <4> QED BY <2>1, <3>1, <4>1, MoveKeepsLists
    <3>2. CASE calls[c].pc \notin Working
      <4>1. ShareAnswer(c)
          BY <2>4, <3>2 DEF RunStep, NotModified, Fetch, Cache, Seen, Refetch, Recache,
                            RefuseOps, RunOps, Stamp, Working
      <4>2. \A d \in Callers : calls'[d] \in {calls[d], Idle}
          BY <4>1 DEF ShareAnswer
      <4> QED BY <2>3, <4>2, IdleIsCall
    <3> QED BY <3>1, <3>2
  <2>5. ASSUME NEW c \in Callers, StepFails(c)
        PROVE  ListsHoldEachOnce' /\ StampsAreCurrent'
    <3>1. calls[c].pc \in Working /\ Skip(c) /\ calls[c].todo # <<>>
        BY <1>1, <2>5 DEF StepFails, Working, Turns, RunsTakeTurns
    <3>2. PICK new \in Call : Advances(c, new)
        BY <1>1, <3>1, SkipAdvances
    <3> QED BY <2>1, <3>1, <3>2, MoveKeepsLists
  <2>6. ASSUME NEW c \in Callers, TakeLock(c)
        PROVE  ListsHoldEachOnce' /\ StampsAreCurrent'
      BY <2>6, TakeLockKeepsIInv
  <2>7. ASSUME NEW c \in Callers, HangUp(c) \/ Abandon(c)
        PROVE  ListsHoldEachOnce' /\ StampsAreCurrent'
    <3>1. calls \in [Callers -> Call]
        BY <1>1 DEF TypeOK
    <3>2. PICK new : /\ calls' = [calls EXCEPT ![c] = new]
                     /\ new.todo \in {calls[c].todo, <<>>}
      <4>1. CASE HangUp(c)
        <5> DEFINE new == [calls[c] EXCEPT !.gone = TRUE]
        <5>1. calls' = [calls EXCEPT ![c] = new] /\ new.todo = calls[c].todo
            BY <3>1, <4>1 DEF HangUp, Call
        <5> QED BY <5>1
      <4>2. CASE Abandon(c)
          BY <4>2, IdleIsCall DEF Abandon
      <4> QED BY <2>7, <4>1, <4>2
    <3>3. \A d \in Callers : calls'[d].todo \in {calls[d].todo, <<>>}
        BY <3>1, <3>2
    <3> QED BY <2>3, <3>3
  <2>8. ASSUME NEW c \in Callers, NEW kind, NEW pc, NEW ids,
               calls' = [calls EXCEPT ![c] = Request(kind, pc, ids)]
        PROVE  ListsHoldEachOnce' /\ StampsAreCurrent'
    <3>1. \A d \in Callers : calls'[d].todo \in {calls[d].todo, <<>>}
        BY <1>1, <2>8 DEF Request, TypeOK
    <3> QED BY <2>3, <3>1
  <2>9. ASSUME NEW c \in Checkers, AskCheck(c)
        PROVE  ListsHoldEachOnce' /\ StampsAreCurrent'
      BY <2>8, <2>9 DEF AskCheck, Callers
  <2>10. ASSUME NEW c \in Appliers, NEW ids \in IdLists, AskApply(c, ids)
         PROVE  ListsHoldEachOnce' /\ StampsAreCurrent'
      BY <2>8, <2>10 DEF AskApply, Callers
  <2>11. ASSUME Crash
         PROVE  ListsHoldEachOnce' /\ StampsAreCurrent'
    <3>1. \A d \in Callers : calls'[d].todo \in {calls[d].todo, <<>>}
        BY <2>11, IdleIsCall DEF Crash
    <3> QED BY <2>3, <3>1
  <2>12. ASSUME UNCHANGED calls
         PROVE  ListsHoldEachOnce' /\ StampsAreCurrent'
    <3>1. \A d \in Callers : calls'[d].todo \in {calls[d].todo, <<>>}
        BY <2>12
    <3> QED BY <2>3, <3>1
  <2>13. ListsHoldEachOnce' /\ StampsAreCurrent'
    <3>1. \/ \E c \in Callers : RunStep(c) \/ StepFails(c) \/ TakeLock(c)
                               \/ HangUp(c) \/ Abandon(c)
          \/ \E c \in Checkers : AskCheck(c)
          \/ \E c \in Appliers, ids \in IdLists : AskApply(c, ids)
          \/ Crash
          \/ UNCHANGED calls
        BY DEF Next, CreateFeed, EditUrl, DeleteFeed, Publish, vars
    <3> QED BY <2>4, <2>5, <2>6, <2>7, <2>9, <2>10, <2>11, <2>12, <3>1
  <2> QED BY <1>1, <2>2, <2>13 DEF IInv
<1> QED BY <1>2, <1>3

\* At first no run has read anything.
LEMMA IInvInit == Init => IInv
<1> SUFFICES ASSUME Init PROVE IInv
    OBVIOUS
<1>1. Turns
    BY TurnsInit
<1>2. \A c \in Callers : calls[c].todo = <<>>
    BY IdleIsCall DEF Init
<1>3. ListsHoldEachOnce /\ StampsAreCurrent
    BY <1>2 DEF ListsHoldEachOnce, StampsAreCurrent
<1>4. ContentNotUnderStamp
    BY DEF Init, ContentNotUnderStamp
<1> QED BY <1>1, <1>3, <1>4 DEF IInv

\* StampsAreCurrent: as long as no apply names a feed twice, the stamps a run
\* judges by are those in the table, however edits, deletions, hang-ups,
\* failures and crashes fall in with it.
THEOREM RunsSeeTheStamps == ASSUME NamesOnce PROVE Spec => []StampsAreCurrent
<1>1. Init => IInv
    BY IInvInit
<1>2. IInv /\ [Next]_vars => IInv'
    BY IInvStep
<1>3. IInv => StampsAreCurrent
    BY DEF IInv
<1> QED BY <1>1, <1>2, <1>3, PTL DEF Spec

\* ContentNotUnderStamp: what is installed is never older than its stamp.
THEOREM StampsAreBacked == ASSUME NamesOnce PROVE Spec => []ContentNotUnderStamp
<1>1. Init => IInv
    BY IInvInit
<1>2. IInv /\ [Next]_vars => IInv'
    BY IInvStep
<1>3. IInv => ContentNotUnderStamp
    BY DEF IInv
<1> QED BY <1>1, <1>2, <1>3, PTL DEF Spec

\* StampIsFloor: a stamp only moves forward, through re-runs, rollbacks
\* between a check and its apply, and edits in the middle of a run.
THEOREM StampsMoveForward == ASSUME NamesOnce PROVE Spec => StampIsFloor
<1> DEFINE Forward ==
      \A f \in Feeds :
         rows[f] \notin {NoFeed, Deleted} /\ rows'[f] # Deleted
           => rows'[f].applied >= rows[f].applied
<1>1. Init => IInv
    BY IInvInit
<1>2. IInv /\ [Next]_vars => IInv'
    BY IInvStep
<1>3. IInv /\ [Next]_vars => [Forward]_vars
  <2> SUFFICES ASSUME IInv, [Next]_vars PROVE Forward
      OBVIOUS
  <2>1. Turns /\ \A f \in Feeds : Exists(f) => rows[f].applied \in Nat
      BY DEF IInv, Turns, TypeOK, Row
  <2>2. ASSUME NEW c \in Callers, Stamp(c) PROVE Forward
    <3>1. PICK f \in Feeds : f = Cur(c).id
        BY <2>2, StampMovesForward
    <3>2. IF Exists(f) THEN /\ rows'[f].applied > rows[f].applied
                            /\ rows'[f].applied \in Nat
                       ELSE rows'[f] = rows[f]
        BY <2>2, <3>1, StampMovesForward
    <3>3. \A g \in Feeds : g # f => StampStands(g)
      <4>1. calls[c].pc \in Working /\ RunStep(c)
          BY <2>2 DEF Stamp, Working, RunStep
      <4> QED BY <2>1, <3>1, <4>1, RunStepRows
    <3> QED BY <2>1, <3>2, <3>3 DEF StampStands
  <2>3. CASE \A c \in Callers : ~Stamp(c)
    <3>1. \A f \in Feeds : StampStands(f)
        BY <2>1, <2>3, StampsStand
    <3> QED BY <2>1, <3>1 DEF StampStands
  <2> QED BY <2>2, <2>3
<1> QED BY <1>1, <1>2, <1>3, PTL DEF Spec, StampIsFloor

-----------------------------------------------------------------------------
(***************************************************************************)
(* Proofs about VirtualTools: for any tools, sessions and number of calls  *)
(* and suspensions, a run acts once, in its session, and its result is     *)
(* what its lines mean.                                                    *)
(***************************************************************************)

\* A nonempty set of naturals has a least element.
LEMMA LeastIs ==
    ASSUME NEW I \in SUBSET Nat, I # {}
    PROVE  \E i \in I : \A j \in I : i <= j
<1>1. PICK i \in I : \A j \in I : <<j, i>> \notin OpToRel(<, Nat)
    BY WFMin, NatLessThanWellFounded, Zenon
<1>2. \A j \in I : ~(j < i)
    BY <1>1, Zenon DEF OpToRel
<1>3. \A j \in I : i <= j
    BY <1>2
<1> QED BY <1>3

\* LastOf is the last line of a set before a line, if there is one.
LEMMA LastIs ==
    ASSUME NEW S \in SUBSET Nat, NEW i \in Nat
    PROVE  /\ LastOf(S, i) \in {j \in S : j < i} \cup {0}
           /\ \A j \in S : j < i => j <= LastOf(S, i)
<1> DEFINE T == {j \in S : j < i} \cup {0}
           Bounds == {k \in Nat : \A j \in T : j <= k}
<1>1. i \in Bounds /\ Bounds \in SUBSET Nat OBVIOUS
<1>2. PICK k \in Bounds : \A j \in Bounds : k <= j
  <2> HIDE DEF Bounds
  <2> QED BY <1>1, LeastIs
<1>3. k \in T
  <2> SUFFICES ASSUME k \notin T PROVE FALSE OBVIOUS
  <2>1. k # 0 /\ k \in Nat OBVIOUS
  <2>2. k - 1 \in Nat /\ k - 1 < k BY <2>1
  <2>3. \A j \in T : j <= k - 1 BY <2>1
  <2>4. k - 1 \in Bounds BY <2>2, <2>3
  <2> QED BY <1>2, <2>2, <2>4
<1>4. \A j \in T : k >= j OBVIOUS
<1>5. LastOf(S, i) = CHOOSE m \in T : \A j \in T : m >= j BY DEF LastOf, Max
<1> HIDE DEF T
<1>6. LastOf(S, i) \in T /\ \A j \in T : LastOf(S, i) >= j BY <1>3, <1>4, <1>5
<1>7. PICK m : m = LastOf(S, i) OBVIOUS
<1>8. m \in T /\ \A j \in T : m >= j BY <1>6, <1>7
<1> USE DEF T
<1>9. m \in Nat /\ \A j \in S : j \in Nat BY <1>8
<1>10. \A j \in S : j < i => j <= m BY <1>8, <1>9
<1> QED BY <1>7, <1>8, <1>10

\* And the only one that is.
LEMMA LastIsOnly ==
    ASSUME NEW S \in SUBSET Nat, NEW i \in Nat, NEW m \in {j \in S : j < i} \cup {0},
           \A j \in S : j < i => j <= m
    PROVE  LastOf(S, i) = m
<1>1. PICK last : last = LastOf(S, i) OBVIOUS
<1>2. last \in {j \in S : j < i} \cup {0} /\ \A j \in S : j < i => j <= last BY <1>1, LastIs
<1>3. last \in Nat /\ m \in Nat BY <1>2
<1>4. last <= m BY <1>2, <1>3
<1>5. m <= last BY <1>2, <1>3
<1> QED BY <1>1, <1>3, <1>4, <1>5

\* Only the lines before it matter.
LEMMA LastOfEarlier ==
    ASSUME NEW S \in SUBSET Nat, NEW T \in SUBSET Nat, NEW i \in Nat, NEW k \in Nat, i <= k,
           \A j \in Nat : j < i => (j \in S <=> j \in T),
           \A j \in Nat : i <= j /\ j < k => j \notin T
    PROVE  LastOf(S, i) = LastOf(T, k)
<1>1. \A j \in S : j < i => j \in T /\ j < k OBVIOUS
<1>2. \A j \in T : j < k => j < i OBVIOUS
<1>3. \A j \in T : j < k => j \in S /\ j < i BY <1>2
<1>4. {j \in S : j < i} = {j \in T : j < k} BY <1>1, <1>3
<1> QED BY <1>4 DEF LastOf

\* A tool of the model: a sequence of lines.
IsTool(lines) == lines \in Seq(Lines) /\ Len(lines) \in 1..MaxLines
Given == [1..MaxLines -> Answers]

\* The lines that set ".", and those that assign $x.
LEMMA SetLines ==
    ASSUME NEW lines, IsTool(lines), NEW answers
    PROVE  Setting(lines, answers) \in SUBSET Nat /\ Assigning(lines) \in SUBSET Nat
BY DEF Setting, Assigning, IsTool

\* Answers that are the same before a line.
Agree(a, b, i) == \A j \in 1..i - 1 : a[j] = b[j]

\* A line that leaves "." as it is.
Leaves(lines, answers, j) == lines[j] \notin Outward \cup {"bump"} /\ (lines[j] \in Asking => answers[j] = Nothing)

\* "." is where it was as long as no line changes it, and only the answers before matter.
LEMMA ScopeEarlier ==
    ASSUME NEW lines, IsTool(lines), NEW a, NEW b, NEW i \in Nat, NEW k \in Nat, 1 <= i, i <= k, k <= Len(lines) + 1,
           Agree(a, b, i),
           \A j \in i..k - 1 : Leaves(lines, b, j)
    PROVE  ScopeAt(lines, i, a) = ScopeAt(lines, k, b)
<1>1. PICK S : S = Setting(lines, a) OBVIOUS
<1>2. PICK T : T = Setting(lines, b) OBVIOUS
<1>3. S \in SUBSET Nat /\ T \in SUBSET Nat BY <1>1, <1>2, SetLines
<1>4. DOMAIN lines = 1..Len(lines) /\ Len(lines) \in Nat BY DEF IsTool
<1>5. \A j \in Nat : j < i => (j \in S <=> j \in T) BY <1>1, <1>2, <1>4 DEF Setting, Agree
<1>6. \A j \in Nat : i <= j /\ j < k => j \notin T BY <1>2, <1>4 DEF Setting, Leaves
<1>7. PICK last : last = LastOf(S, i) OBVIOUS
<1>8. last = LastOf(T, k) BY <1>3, <1>5, <1>6, <1>7, LastOfEarlier
<1>9. last \in {j \in S : j < i} \cup {0} BY <1>3, <1>7, LastIs
<1>10. last \in Nat /\ last < i BY <1>3, <1>9
<1>11. {j \in last + 1..i - 1 : lines[j] = "bump"} = {j \in last + 1..k - 1 : lines[j] = "bump"}
  <2>1. \A j \in last + 1..k - 1 : lines[j] = "bump" => j \in last + 1..i - 1 BY <1>10 DEF Leaves
  <2>2. \A j \in last + 1..i - 1 : j \in last + 1..k - 1 BY <1>10
  <2> QED BY <2>1, <2>2
<1>12. last # 0 => a[last] = b[last] BY <1>10 DEF Agree
<1> QED BY <1>1, <1>2, <1>7, <1>8, <1>11, <1>12, Zenon DEF ScopeAt

\* At the first line it is nothing yet.
LEMMA ScopeFirst ==
    ASSUME NEW lines, IsTool(lines), NEW a
    PROVE  ScopeAt(lines, 1, a) = From(0) /\ \A token : XAt(lines, 1, token, a) = From(Unset)
<1>1. PICK S : S = Setting(lines, a) OBVIOUS
<1>2. PICK T : T = Assigning(lines) OBVIOUS
<1>3. S \in SUBSET Nat /\ T \in SUBSET Nat BY <1>1, <1>2, SetLines
<1>4. 0 \notin S /\ 0 \notin T BY <1>1, <1>2 DEF Setting, Assigning, IsTool
<1>5. \A j \in S \cup T : ~(j < 1) BY <1>3, <1>4
<1>6. LastOf(S, 1) = 0 /\ LastOf(T, 1) = 0
  <2>1. 0 \in {j \in S : j < 1} \cup {0} /\ 0 \in {j \in T : j < 1} \cup {0} OBVIOUS
  <2> QED BY <1>3, <1>5, <2>1, LastIsOnly
<1>7. {j \in 0 + 1..1 - 1 : lines[j] = "bump"} = {} OBVIOUS
<1>8. Cardinality({j \in 0 + 1..1 - 1 : lines[j] = "bump"}) = 0 BY <1>7, FS_EmptySet
<1>9. ScopeAt(lines, 1, a) = [src |-> 0, bumps |-> 0] BY <1>1, <1>6, <1>8, Zenon DEF ScopeAt
<1>10. Cardinality({j \in 0 + 1..1 - 1 : lines[j] = "count"}) = 0
  <2>1. {j \in 0 + 1..1 - 1 : lines[j] = "count"} = {} OBVIOUS
  <2> QED BY <2>1, FS_EmptySet
<1>11. Changed(From(Unset), 0) = From(Unset) BY DEF Changed, From
<1>12. ASSUME NEW token PROVE XAt(lines, 1, token, a) = From(Unset)
  <2>1. AssignedBy(lines, 0, token, a) = From(Unset) BY DEF AssignedBy
  <2> QED BY <1>2, <1>6, <1>10, <1>11, <2>1, Zenon DEF XAt
<1> QED BY <1>9, <1>12 DEF From

\* A request and an answered question set it.
LEMMA ScopeSet ==
    ASSUME NEW lines, IsTool(lines), NEW a, NEW i \in DOMAIN lines,
           lines[i] \in Outward \/ (lines[i] \in Asking /\ a[i] # Nothing)
    PROVE  ScopeAt(lines, i + 1, a) = From(IF lines[i] \in Asking THEN a[i] ELSE i)
<1>1. PICK S : S = Setting(lines, a) OBVIOUS
<1>2. S \in SUBSET Nat /\ i \in S /\ i \in Nat /\ i # 0 BY <1>1, SetLines DEF Setting, IsTool
<1>3. LastOf(S, i + 1) = i
  <2>1. i \in {j \in S : j < i + 1} \cup {0} BY <1>2
  <2>2. \A j \in S : j < i + 1 => j <= i BY <1>2
  <2> QED BY <1>2, <2>1, <2>2, LastIsOnly
<1>4. {j \in i + 1..(i + 1) - 1 : lines[j] = "bump"} = {} BY <1>2
<1>5. Cardinality({j \in i + 1..(i + 1) - 1 : lines[j] = "bump"}) = 0 BY <1>4, FS_EmptySet
<1> QED BY <1>1, <1>2, <1>3, <1>5, Zenon DEF ScopeAt, From

\* A change is a change.
LEMMA ScopeBumped ==
    ASSUME NEW lines, IsTool(lines), NEW a, NEW i \in DOMAIN lines, lines[i] = "bump"
    PROVE  /\ ScopeAt(lines, i, a).bumps \in Nat
           /\ ScopeAt(lines, i + 1, a) = Changed(ScopeAt(lines, i, a), 1)
<1>1. PICK S : S = Setting(lines, a) OBVIOUS
<1>2. S \in SUBSET Nat /\ i \notin S /\ i \in Nat BY <1>1, SetLines DEF Setting, IsTool, Outward, Asking
<1>3. PICK last : last = LastOf(S, i) OBVIOUS
<1>4. last = LastOf(S, i + 1)
  <2>1. \A j \in Nat : i <= j /\ j < i + 1 => j \notin S BY <1>2
  <2> QED BY <1>2, <1>3, <2>1, LastOfEarlier
<1>5. last \in Nat /\ (last < i \/ last = 0)
  <2>1. last \in {j \in S : j < i} \cup {0} BY <1>2, <1>3, LastIs
  <2> QED BY <1>2, <2>1
<1>6. i >= 1 BY DEF IsTool
<1> DEFINE B == {j \in last + 1..i - 1 : lines[j] = "bump"}
           C == {j \in last + 1..(i + 1) - 1 : lines[j] = "bump"}
<1>7. IsFiniteSet(B)
  <2>1. IsFiniteSet(last + 1..i - 1) BY <1>2, <1>5, FS_Interval
  <2> QED BY <2>1, FS_Subset
<1>8. C = B \cup {i} /\ i \notin B BY <1>2, <1>5, <1>6
<1>9. Cardinality(B) \in Nat /\ Cardinality(C) = Cardinality(B) + 1
  <2> HIDE DEF B, C
  <2> QED BY <1>7, <1>8, FS_AddElement, FS_CardinalityType
<1>10. PICK src : src = IF last # 0 /\ lines[last] \in Asking THEN a[last] ELSE last OBVIOUS
<1>11. ScopeAt(lines, i, a) = [src |-> src, bumps |-> Cardinality(B)] BY <1>1, <1>3, <1>10, Zenon DEF ScopeAt
<1>12. ScopeAt(lines, i + 1, a) = [src |-> src, bumps |-> Cardinality(C)] BY <1>1, <1>4, <1>10, Zenon DEF ScopeAt
<1> HIDE DEF B, C
<1> QED BY <1>9, <1>11, <1>12 DEF Changed

\* What an assignment gives is a value.
LEMMA AssignedIs ==
    ASSUME NEW lines, IsTool(lines), NEW a, NEW i \in Nat, NEW token
    PROVE  \E src : \E n \in Nat : AssignedBy(lines, i, token, a) = [src |-> src, bumps |-> n]
<1>1. CASE i = 0 \/ lines[i] = "copy" BY <1>1 DEF AssignedBy, From
<1>2. CASE ~(i = 0 \/ lines[i] = "copy")
  <2>1. PICK last : last = LastOf(Setting(lines, a), i) OBVIOUS
  <2>2. last \in Nat BY <2>1, SetLines, LastIs
  <2> DEFINE B == {j \in last + 1..i - 1 : lines[j] = "bump"}
  <2>3. IsFiniteSet(B)
    <3>1. last + 1 \in Int /\ i - 1 \in Int BY <2>2
    <3>2. IsFiniteSet(last + 1..i - 1) BY <3>1, FS_Interval
    <3> QED BY <3>2, FS_Subset
  <2>4. Cardinality(B) \in Nat BY <2>3, FS_CardinalityType
  <2>5. PICK src : src = IF last # 0 /\ lines[last] \in Asking THEN a[last] ELSE last OBVIOUS
  <2>6. ScopeAt(lines, i, a) = [src |-> src, bumps |-> Cardinality(B)] BY <2>1, <2>5, Zenon DEF ScopeAt
  <2>7. AssignedBy(lines, i, token, a) = ScopeAt(lines, i, a) BY <1>2 DEF AssignedBy
  <2> HIDE DEF B
  <2> QED BY <2>4, <2>6, <2>7
<1> QED BY <1>1, <1>2

\* A line that leaves $x as it is.
LeavesX(lines, j) == lines[j] \notin {"assign", "copy", "count"}

\* $x likewise.
LEMMA XEarlier ==
    ASSUME NEW lines, IsTool(lines), NEW a, NEW b, NEW i \in Nat, NEW k \in Nat, 1 <= i, i <= k, k <= Len(lines) + 1,
           Agree(a, b, i), \A j \in i..k - 1 : LeavesX(lines, j), NEW token
    PROVE  XAt(lines, i, token, a) = XAt(lines, k, token, b)
<1>1. PICK S : S = Assigning(lines) OBVIOUS
<1>2. S \in SUBSET Nat BY <1>1, SetLines
<1>3. DOMAIN lines = 1..Len(lines) /\ Len(lines) \in Nat BY DEF IsTool
<1>4. \A j \in Nat : i <= j /\ j < k => j \notin S BY <1>1, <1>3 DEF Assigning, LeavesX
<1>5. PICK last : last = LastOf(S, i) OBVIOUS
<1>6. last = LastOf(S, k) BY <1>2, <1>4, <1>5, LastOfEarlier
<1>7. last \in {j \in S : j < i} \cup {0} BY <1>2, <1>5, LastIs
<1>8. last \in Nat /\ last < i BY <1>2, <1>7
<1>9. AssignedBy(lines, last, token, a) = AssignedBy(lines, last, token, b)
  <2>1. CASE last = 0 BY <2>1 DEF AssignedBy
  <2>2. CASE last # 0
    <3>1. last \in Nat /\ 1 <= last /\ last < i BY <1>8, <2>2
    <3>2. Agree(a, b, last) BY <3>1 DEF Agree
    <3>3. last <= Len(lines) + 1 /\ \A j \in last..last - 1 : FALSE BY <1>3, <3>1
    <3>4. ScopeAt(lines, last, a) = ScopeAt(lines, last, b) BY <3>1, <3>2, <3>3, ScopeEarlier
    <3> QED BY <3>4 DEF AssignedBy
  <2> QED BY <2>1, <2>2
<1>10. {j \in last + 1..i - 1 : lines[j] = "count"} = {j \in last + 1..k - 1 : lines[j] = "count"}
  <2>1. \A j \in last + 1..k - 1 : lines[j] = "count" => j \in last + 1..i - 1 BY <1>8 DEF LeavesX
  <2>2. \A j \in last + 1..i - 1 : j \in last + 1..k - 1 BY <1>8
  <2> QED BY <2>1, <2>2
<1> QED BY <1>1, <1>5, <1>6, <1>9, <1>10, Zenon DEF XAt

\* From line to line, if it is left alone.
LEMMA XSame ==
    ASSUME NEW lines, IsTool(lines), NEW a, NEW i \in DOMAIN lines, LeavesX(lines, i), NEW token
    PROVE  XAt(lines, i + 1, token, a) = XAt(lines, i, token, a)
<1>1. i \in Nat /\ 1 <= i /\ i <= Len(lines) /\ Len(lines) \in Nat BY DEF IsTool
<1>2. PICK k \in Nat : k = i + 1 BY <1>1
<1>3. i <= k /\ k <= Len(lines) + 1 BY <1>1, <1>2
<1>4. \A j \in i..k - 1 : LeavesX(lines, j) BY <1>1, <1>2
<1>5. Agree(a, a, i) BY DEF Agree
<1>6. XAt(lines, i, token, a) = XAt(lines, k, token, a) BY <1>1, <1>3, <1>4, <1>5, XEarlier
<1> QED BY <1>2, <1>6

\* The same of ".".
LEMMA ScopeSame ==
    ASSUME NEW lines, IsTool(lines), NEW a, NEW i \in DOMAIN lines,
           Leaves(lines, a, i)
    PROVE  ScopeAt(lines, i + 1, a) = ScopeAt(lines, i, a)
<1>1. i \in Nat /\ 1 <= i /\ i <= Len(lines) /\ Len(lines) \in Nat BY DEF IsTool
<1>2. PICK k \in Nat : k = i + 1 BY <1>1
<1>3. i <= k /\ k <= Len(lines) + 1 BY <1>1, <1>2
<1>4. \A j \in i..k - 1 : Leaves(lines, a, j) BY <1>1, <1>2
<1>5. Agree(a, a, i) BY DEF Agree
<1>6. ScopeAt(lines, i, a) = ScopeAt(lines, k, a) BY <1>1, <1>3, <1>4, <1>5, ScopeEarlier
<1> QED BY <1>2, <1>6

\* An assignment is the last one.
LEMMA XAssigned ==
    ASSUME NEW lines, IsTool(lines), NEW a, NEW i \in DOMAIN lines, lines[i] \in {"assign", "copy"}, NEW token
    PROVE  XAt(lines, i + 1, token, a) = IF lines[i] = "copy" THEN From(token) ELSE ScopeAt(lines, i, a)
<1>1. PICK S : S = Assigning(lines) OBVIOUS
<1>2. S \in SUBSET Nat /\ i \in S /\ i \in Nat /\ i # 0 BY <1>1, SetLines DEF Assigning, IsTool
<1>3. LastOf(S, i + 1) = i
  <2>1. i \in {j \in S : j < i + 1} \cup {0} BY <1>2
  <2>2. \A j \in S : j < i + 1 => j <= i BY <1>2
  <2> QED BY <1>2, <2>1, <2>2, LastIsOnly
<1>4. Cardinality({j \in i + 1..(i + 1) - 1 : lines[j] = "count"}) = 0
  <2>1. {j \in i + 1..(i + 1) - 1 : lines[j] = "count"} = {} BY <1>2
  <2> QED BY <2>1, FS_EmptySet
<1>5. PICK v : v = AssignedBy(lines, i, token, a) OBVIOUS
<1>6. Changed(v, 0) = v
  <2>1. PICK src : \E n \in Nat : v = [src |-> src, bumps |-> n] BY <1>2, <1>5, AssignedIs
  <2>2. PICK n \in Nat : v = [src |-> src, bumps |-> n] BY <2>1
  <2> QED BY <2>2 DEF Changed
<1>7. XAt(lines, i + 1, token, a) = v BY <1>1, <1>3, <1>4, <1>5, <1>6, Zenon DEF XAt
<1> QED BY <1>2, <1>5, <1>7 DEF AssignedBy

\* A variable assigned from itself is changed once more.
LEMMA XCounted ==
    ASSUME NEW lines, IsTool(lines), NEW a, NEW i \in DOMAIN lines, lines[i] = "count", NEW token
    PROVE  XAt(lines, i + 1, token, a) = Changed(XAt(lines, i, token, a), 1)
<1>1. PICK S : S = Assigning(lines) OBVIOUS
<1>2. S \in SUBSET Nat /\ i \notin S /\ i \in Nat BY <1>1, SetLines DEF Assigning, IsTool
<1>3. PICK last : last = LastOf(S, i) OBVIOUS
<1>4. last = LastOf(S, i + 1)
  <2>1. \A j \in Nat : i <= j /\ j < i + 1 => j \notin S BY <1>2
  <2> QED BY <1>2, <1>3, <2>1, LastOfEarlier
<1>5. last \in Nat /\ (last < i \/ last = 0)
  <2>1. last \in {j \in S : j < i} \cup {0} BY <1>2, <1>3, LastIs
  <2> QED BY <1>2, <2>1
<1>6. i >= 1 BY DEF IsTool
<1> DEFINE B == {j \in last + 1..i - 1 : lines[j] = "count"}
           C == {j \in last + 1..(i + 1) - 1 : lines[j] = "count"}
<1>7. IsFiniteSet(B)
  <2>1. IsFiniteSet(last + 1..i - 1) BY <1>2, <1>5, FS_Interval
  <2> QED BY <2>1, FS_Subset
<1>8. C = B \cup {i} /\ i \notin B BY <1>2, <1>5, <1>6
<1>9. Cardinality(B) \in Nat /\ Cardinality(C) = Cardinality(B) + 1
  <2> HIDE DEF B, C
  <2> QED BY <1>7, <1>8, FS_AddElement, FS_CardinalityType
<1>10. PICK v : v = AssignedBy(lines, last, token, a) OBVIOUS
<1>11. XAt(lines, i, token, a) = Changed(v, Cardinality(B)) BY <1>1, <1>3, <1>10, Zenon DEF XAt
<1>12. XAt(lines, i + 1, token, a) = Changed(v, Cardinality(C)) BY <1>1, <1>4, <1>10, Zenon DEF XAt
<1> HIDE DEF B, C
<1>13. PICK src : \E n \in Nat : v = [src |-> src, bumps |-> n] BY <1>5, <1>10, AssignedIs
<1>14. PICK n \in Nat : v = [src |-> src, bumps |-> n] BY <1>13
<1>15. PICK b \in Nat, c \in Nat : b = Cardinality(B) /\ c = Cardinality(C) /\ c = b + 1 BY <1>9
<1>16. Changed(v, c) = Changed(Changed(v, b), 1)
  <2>1. Changed(v, b) = [src |-> src, bumps |-> n + b] BY <1>14 DEF Changed
  <2>2. Changed(v, c) = [src |-> src, bumps |-> n + c] BY <1>14 DEF Changed
  <2>3. Changed(Changed(v, b), 1) = [src |-> src, bumps |-> (n + b) + 1]
    <3>1. PICK m \in Nat : m = n + b OBVIOUS
    <3>2. Changed([src |-> src, bumps |-> m], 1) = [src |-> src, bumps |-> m + 1] BY DEF Changed
    <3> QED BY <2>1, <3>1, <3>2
  <2>4. n + c = (n + b) + 1 BY <1>15
  <2> QED BY <2>2, <2>3, <2>4
<1> QED BY <1>11, <1>12, <1>15, <1>16

\* A run that gets to a line got to those before.
LEMMA GetsToEarlier ==
    ASSUME NEW lines, IsTool(lines), NEW a, NEW b, NEW i \in Nat, NEW k \in Nat, 1 <= k, k <= i, i <= Len(lines) + 1,
           Agree(a, b, k), NEW token, GetsTo(lines, i, token, a)
    PROVE  GetsTo(lines, k, token, b)
<1> SUFFICES ASSUME NEW j \in 1..k - 1
             PROVE  /\ lines[j] = "copy" => token # Unset
                    /\ lines[j] = "check" => ScopeAt(lines, j, b).bumps < 2
                    /\ lines[j] # "shape"
    BY DEF GetsTo
<1>1. j \in 1..i - 1 /\ j \in Nat /\ 1 <= j /\ j <= Len(lines) + 1 BY DEF IsTool
<1>2. Agree(a, b, j) BY DEF Agree
<1>3. \A l \in j..j - 1 : FALSE OBVIOUS
<1>4. ScopeAt(lines, j, a) = ScopeAt(lines, j, b) BY <1>1, <1>2, <1>3, ScopeEarlier
<1> QED BY <1>1, <1>4 DEF GetsTo

\* And goes on, unless this line stops it.
LEMMA GetsToNext ==
    ASSUME NEW lines, NEW a, NEW i \in Nat, NEW token, GetsTo(lines, i, token, a), 1 <= i,
           lines[i] = "copy" => token # Unset, lines[i] = "check" => ScopeAt(lines, i, a).bumps < 2, lines[i] # "shape"
    PROVE  GetsTo(lines, i + 1, token, a)
<1>1. \A j \in 1..(i + 1) - 1 : j \in 1..i - 1 \/ j = i OBVIOUS
<1> QED BY <1>1 DEF GetsTo

-----------------------------------------------------------------------------
(* The invariant                                                           *)

\* No line from i to q assigns $x from itself before one assigned it from elsewhere.
Settles(lines, i, q) ==
    \A j \in i..q - 1 : lines[j] = "count" => \E k \in i..j - 1 : lines[k] \in {"assign", "copy"}

\* A run that was resumed with an answer is on its way to the question it is for,
\* with nothing but statements before it.  $x is what it was at the question,
\* until one of them assigns it anew, from elsewhere first.
OnTheWay(lines, run, q) ==
    /\ q \in DOMAIN lines /\ lines[q] \in Asking /\ ~HandsOff(lines, q) /\ run.line <= q
    /\ \A j \in run.line..q - 1 : lines[j] \in Statements
    /\ run.answer = run.answers[q] \/ (lines[q] = "form" /\ run.answer = Bad)
    /\ ~ChangesBeforeAsking(lines) =>
         /\ \A j \in run.line..q - 1 : lines[j] # "bump"
         /\ \/ run.x = XAt(lines, run.line, run.token, run.answers)
            \/ run.x = XAt(lines, q, run.token, run.answers) /\ Settles(lines, run.line, q)

\* What a run has is what its lines before mean.
AsMeant(lines, run) ==
    run.at \in {"running", "suspended", "done"} =>
        /\ GetsTo(lines, run.line, run.token, run.answers)
        /\ run.scope = ScopeAt(lines, run.line, run.answers)
        /\ run.answer = Unset \/ run.at # "running" => run.x = XAt(lines, run.line, run.token, run.answers)

\* Only requests it is past have acted.
Acted(lines, run, done) ==
    /\ \A i \in 1..MaxLines : done[i] <= 1
    /\ run.at \in {"running", "suspended"} =>
         \A i \in 1..MaxLines : done[i] # 0 => i < run.line /\ i \in DOMAIN lines /\ lines[i] \in Outward

\* Nothing it could send is its caller's session.
Discreet(lines, run) == LeavesServer(lines) => Session \notin {run.token, run.x.src, run.scope.src}

\* One run and what it did.
Sound(lines, run, done) ==
    /\ run \in Run /\ run.session = run.home
    /\ run.at = "none" => run = NoRun /\ \A i \in 1..MaxLines : done[i] = 0
    /\ run.at \in {"running", "suspended", "done"} => run.line <= Len(lines) + 1
    /\ run.at = "running" /\ run.answer # Unset => \E q \in DOMAIN lines : OnTheWay(lines, run, q)
    /\ run.at = "suspended" => /\ run.line \in DOMAIN lines /\ lines[run.line] \in Asking /\ ~HandsOff(lines, run.line)
                               /\ run.answer = Unset /\ run.session # Browser
    /\ run.at = "done" => run.line = Len(lines) + 1 \/ lines[run.line] = "shape"
    /\ \A i \in 1..MaxLines : run.answers[i] # Nothing => i \in DOMAIN lines /\ lines[i] \in Asking /\ ~HandsOff(lines, i)
    /\ Acted(lines, run, done) /\ Discreet(lines, run)
    /\ ~ChangesBeforeAsking(lines) => AsMeant(lines, run)

\* A suspension is of the one question its run waits at, with what was reported.
Waiting(lines, run, entry, report) ==
    /\ entry \in Entry /\ run.at = "suspended"
    /\ entry.session = run.session /\ entry.line = run.line /\ entry.scope = run.scope /\ entry.x = run.x
    /\ entry.mode = lines[run.line]
    /\ entry.payload = report /\ (entry.mode = "form" => report = Nothing)

SInv ==
    /\ ToolTypeOK
    /\ \A r \in 1..MaxRuns : Sound(tool, runs[r], effects[r])
    /\ \A id \in 1..MaxIds :
         /\ pending[id] # Nothing => id < nextId /\ Waiting(tool, runs[pending[id].run], pending[id], reported[id])
         /\ id >= nextId => reported[id] = Nothing
    /\ \A id, other \in 1..MaxIds :
         pending[id] # Nothing /\ pending[other] # Nothing /\ pending[id].run = pending[other].run => id = other
    /\ <<"away", Session>> \notin sent

-----------------------------------------------------------------------------
(* One run                                                                 *)

\* A tool of the model is one.
LEMMA ToolIs ==
    ASSUME NEW lines \in Tools
    PROVE  IsTool(lines)
BY VirtualToolsAssumption DEF IsTool

\* A run that ends or fails is sound.
LEMMA StopsSound ==
    ASSUME NEW lines, IsTool(lines), NEW run, NEW done, Sound(lines, run, done), NEW d, run.at # "none",
           NEW at \in {"done", "failed"},
           at = "done" => run.at = "running" /\ run.answer = Unset
                          /\ (run.line = Len(lines) + 1 \/ lines[run.line] = "shape"),
           NEW q, q = [run EXCEPT !.at = at],
           \A k \in 1..MaxLines : d[k] <= 1
    PROVE  Sound(lines, q, d)
<1>1. run \in Run BY DEF Sound
<1>2. /\ q \in Run /\ q.at = at /\ q.session = run.session /\ q.home = run.home
      /\ q.line = run.line /\ q.scope = run.scope /\ q.x = run.x /\ q.token = run.token
      /\ q.answer = run.answer /\ q.answers = run.answers
    BY <1>1 DEF Run
<1>3. Acted(lines, q, d) BY <1>2 DEF Acted
<1>4. Discreet(lines, q) BY <1>2 DEF Discreet, Sound
<1>5. \A k \in 1..MaxLines : q.answers[k] # Nothing => k \in DOMAIN lines /\ lines[k] \in Asking /\ ~HandsOff(lines, k)
    BY <1>2 DEF Sound
<1>6. ~ChangesBeforeAsking(lines) => AsMeant(lines, q) BY <1>2 DEF AsMeant, Sound
<1>7. q.session = q.home BY <1>2 DEF Sound
<1>8. at = "done" => q.line <= Len(lines) + 1 /\ (q.line = Len(lines) + 1 \/ lines[q.line] = "shape")
    BY <1>2 DEF Sound
<1> QED BY <1>2, <1>3, <1>4, <1>5, <1>6, <1>7, <1>8 DEF Sound

\* Where a run is.
LEMMA AtLine ==
    ASSUME NEW lines, IsTool(lines), NEW run, NEW done, Sound(lines, run, done), run.at = "running", run.line <= Len(lines)
    PROVE  /\ run \in Run /\ run.line \in DOMAIN lines /\ run.line \in Nat /\ 1 <= run.line
           /\ run.scope \in Value /\ run.x \in Value /\ run.answer \in Answers \cup {Bad, Unset}
           /\ run.answers \in Given /\ run.token \in {Session, Upstream, Unset}
BY DEF Sound, IsTool, Run, Given

\* Nothing but a statement is passed on the way to a question.
LEMMA OnlyStatements ==
    ASSUME NEW lines, IsTool(lines), NEW run, NEW done, Sound(lines, run, done), run.at = "running",
           run.line > Len(lines) \/ lines[run.line] \notin Statements \cup Asking
    PROVE  run.answer = Unset
<1> SUFFICES ASSUME run.answer # Unset PROVE FALSE OBVIOUS
<1>1. PICK q \in DOMAIN lines : OnTheWay(lines, run, q) BY DEF Sound
<1>2. q \in 1..Len(lines) /\ Len(lines) \in Nat /\ run.line \in Nat BY DEF IsTool, Sound, Run
<1>3. run.line <= q /\ lines[q] \in Asking /\ \A j \in run.line..q - 1 : lines[j] \in Statements BY <1>1 DEF OnTheWay
<1>4. CASE run.line = q BY <1>2, <1>3, <1>4
<1>5. CASE run.line # q
  <2>1. run.line \in run.line..q - 1 BY <1>2, <1>3, <1>5
  <2> QED BY <1>2, <1>3, <2>1
<1> QED BY <1>4, <1>5

\* A statement on the way to a question leads on to it.
LEMMA StaysOnTheWay ==
    ASSUME NEW lines, IsTool(lines), NEW run, NEW done, Sound(lines, run, done), run.at = "running",
           run.line <= Len(lines), lines[run.line] \in Statements, run.answer # Unset,
           NEW q, q.line = run.line + 1, q.token = run.token, q.answer = run.answer, q.answers = run.answers,
           ~ChangesBeforeAsking(lines) =>
               \/ q.x = XAt(lines, run.line + 1, run.token, run.answers)
               \/ q.x = run.x /\ LeavesX(lines, run.line)
    PROVE  /\ \E p \in DOMAIN lines : OnTheWay(lines, q, p)
           /\ ~ChangesBeforeAsking(lines) => lines[run.line] # "bump"
<1>1. PICK p \in DOMAIN lines : OnTheWay(lines, run, p) BY DEF Sound
<1>2. /\ p \in 1..Len(lines) /\ Len(lines) \in Nat /\ run.line \in Nat /\ 1 <= run.line /\ run \in Run
      /\ Len(lines) <= MaxLines
    BY DEF IsTool, Sound, Run
<1>3. /\ lines[p] \in Asking /\ ~HandsOff(lines, p) /\ run.line <= p
      /\ \A j \in run.line..p - 1 : lines[j] \in Statements
      /\ run.answer = run.answers[p] \/ (lines[p] = "form" /\ run.answer = Bad)
    BY <1>1 DEF OnTheWay
<1>4. run.line # p BY <1>3 DEF Statements, Asking
<1>5. run.line + 1 <= p /\ run.line \in run.line..p - 1 BY <1>2, <1>3, <1>4
<1>6. \A j \in run.line + 1..p - 1 : j \in run.line..p - 1 BY <1>2
<1>7. ASSUME ~ChangesBeforeAsking(lines)
      PROVE  /\ lines[run.line] # "bump" /\ \A j \in q.line..p - 1 : lines[j] # "bump"
             /\ \/ q.x = XAt(lines, q.line, q.token, q.answers)
                \/ q.x = XAt(lines, p, q.token, q.answers) /\ Settles(lines, q.line, p)
  <2>1. /\ \A j \in run.line..p - 1 : lines[j] # "bump"
        /\ \/ run.x = XAt(lines, run.line, run.token, run.answers)
           \/ run.x = XAt(lines, p, run.token, run.answers) /\ Settles(lines, run.line, p)
      BY <1>1, <1>7 DEF OnTheWay
  <2>2. LeavesX(lines, run.line) =>
            XAt(lines, run.line, run.token, run.answers) = XAt(lines, run.line + 1, run.token, run.answers)
    <3>1. run.line \in DOMAIN lines BY <1>2
    <3> QED BY <3>1, XSame
  <2>3. LeavesX(lines, run.line) /\ Settles(lines, run.line, p) => Settles(lines, run.line + 1, p)
    <3> SUFFICES ASSUME LeavesX(lines, run.line), Settles(lines, run.line, p),
                        NEW j \in run.line + 1..p - 1, lines[j] = "count"
                 PROVE  \E k \in run.line + 1..j - 1 : lines[k] \in {"assign", "copy"}
        BY DEF Settles
    <3>1. j \in run.line..p - 1 BY <1>6
    <3>2. PICK k \in run.line..j - 1 : lines[k] \in {"assign", "copy"} BY <3>1 DEF Settles
    <3>3. k # run.line BY <3>2 DEF LeavesX
    <3>4. k \in run.line + 1..j - 1 BY <1>2, <3>3
    <3> QED BY <3>2, <3>4
  <2>4. \/ q.x = XAt(lines, q.line, q.token, q.answers)
        \/ q.x = XAt(lines, p, q.token, q.answers) /\ Settles(lines, q.line, p)
      BY <1>7, <2>1, <2>2, <2>3
  <2> QED BY <1>5, <1>6, <2>1, <2>4
<1>8. OnTheWay(lines, q, p) BY <1>3, <1>5, <1>6, <1>7 DEF OnTheWay
<1> QED BY <1>7, <1>8

\* What a run may go on with.
Passing(lines, run, scope, x, answer) ==
    /\ scope \in Value /\ x \in Value
    /\ LeavesServer(lines) => Session \notin {x.src, scope.src}
    /\ answer = Unset \/ (answer = run.answer /\ lines[run.line] \in Statements)
    /\ ~ChangesBeforeAsking(lines) =>
         /\ GetsTo(lines, run.line + 1, run.token, run.answers)
         /\ scope = ScopeAt(lines, run.line + 1, run.answers)
         /\ \/ x = XAt(lines, run.line + 1, run.token, run.answers)
            \/ answer # Unset /\ x = run.x /\ LeavesX(lines, run.line)

\* What it may have done meanwhile.
Doing(lines, run, done, d) ==
    \A k \in 1..MaxLines : d[k] = done[k] \/ (k = run.line /\ lines[k] \in Outward /\ d[k] = done[k] + 1)

\* A run that goes on stays sound, if what it has is as it should be.
LEMMA PassesSound ==
    ASSUME NEW lines, IsTool(lines), NEW run, NEW done, Sound(lines, run, done), run.at = "running",
           run.line <= Len(lines), NEW scope, NEW x, NEW answer, Passing(lines, run, scope, x, answer),
           NEW q, q = NextLine(run, scope, x, answer),
           NEW d, done \in [1..MaxLines -> Nat], Doing(lines, run, done, d)
    PROVE  Sound(lines, q, d) /\ q.at = "running"
<1>1. run \in Run /\ Len(lines) \in Nat /\ Len(lines) <= MaxLines /\ run.line \in Nat /\ run.line >= 1 /\ DOMAIN lines = 1..Len(lines)
    BY VirtualToolsAssumption DEF Sound, IsTool, Run
<1>2. PICK next \in 1..MaxLines + 1 : next = run.line + 1 BY <1>1, VirtualToolsAssumption
<1>3. /\ q \in Run /\ q.at = run.at /\ q.session = run.session /\ q.home = run.home
      /\ q.line = run.line + 1 /\ q.scope = scope /\ q.x = x /\ q.token = run.token
      /\ q.answer = answer /\ q.answers = run.answers
  <2>1. q = [run EXCEPT !.line = next, !.scope = scope, !.x = x, !.answer = answer] BY <1>2 DEF NextLine
  <2>2. run \in Run /\ scope \in Value /\ x \in Value /\ answer \in Answers \cup {Bad, Unset} BY <1>1 DEF Run, Passing
  <2> QED BY <1>2, <2>1, <2>2 DEF Run
<1>4. Acted(lines, q, d)
  <2> SUFFICES ASSUME NEW k \in 1..MaxLines
               PROVE  d[k] <= 1 /\ (d[k] # 0 => k < run.line + 1 /\ k \in DOMAIN lines /\ lines[k] \in Outward)
      BY <1>3 DEF Acted
  <2>1. done[k] <= 1 /\ done[k] \in Nat /\ (done[k] # 0 => k < run.line /\ k \in DOMAIN lines /\ lines[k] \in Outward)
      BY DEF Sound, Acted
  <2> d[k] = done[k] \/ (k = run.line /\ lines[k] \in Outward /\ d[k] = done[k] + 1) BY DEF Doing
  <2>2. CASE d[k] = done[k] BY <1>1, <2>1, <2>2
  <2>3. CASE k = run.line /\ lines[k] \in Outward /\ d[k] = done[k] + 1 BY <1>1, <2>1, <2>3
  <2> QED BY <2>2, <2>3
<1>5. Discreet(lines, q) BY <1>3 DEF Discreet, Sound, Passing
<1>6. q.line <= Len(lines) + 1 BY <1>1, <1>3
<1>7. \A k \in 1..MaxLines : q.answers[k] # Nothing => k \in DOMAIN lines /\ lines[k] \in Asking /\ ~HandsOff(lines, k)
    BY <1>3 DEF Sound
<1>8. q.session = q.home BY <1>3 DEF Sound
<1>9. q.answer # Unset => \E p \in DOMAIN lines : OnTheWay(lines, q, p)
    BY <1>3, StaysOnTheWay DEF Passing
<1>10. ~ChangesBeforeAsking(lines) => AsMeant(lines, q) BY <1>3 DEF AsMeant, Passing
<1> QED BY <1>3, <1>4, <1>5, <1>6, <1>7, <1>8, <1>9, <1>10 DEF Sound

\* A statement does to "." and $x what it says.
LEMMA StatementSound ==
    ASSUME NEW lines, IsTool(lines), NEW run, NEW done, Sound(lines, run, done), run.at = "running",
           run.line <= Len(lines), done \in [1..MaxLines -> Nat], NEW scope, NEW x,
           \/ lines[run.line] = "assign" /\ scope = run.scope /\ x = run.scope
           \/ lines[run.line] = "copy" /\ run.token # Unset /\ scope = run.scope /\ x = From(run.token)
           \/ lines[run.line] = "count" /\ scope = run.scope /\ x = Changed(run.x, 1)
           \/ lines[run.line] = "bump" /\ scope = Changed(run.scope, 1) /\ x = run.x
           \/ lines[run.line] = "check" /\ run.scope.bumps < 2 /\ scope = run.scope /\ x = run.x,
           NEW q, q = NextLine(run, scope, x, run.answer)
    PROVE  Sound(lines, q, done) /\ q.at = "running"
<1>1. PICK i \in DOMAIN lines : i = run.line BY AtLine
<1>2. /\ run \in Run /\ i \in Nat /\ 1 <= i /\ run.scope \in Value /\ run.x \in Value /\ run.token \in {Session, Upstream, Unset}
    BY <1>1, AtLine
<1>3. scope \in Value /\ x \in Value /\ scope.src = run.scope.src /\ x.src \in {run.scope.src, run.x.src, run.token}
    BY <1>1, <1>2 DEF Value, From, Changed
<1>4. LeavesServer(lines) => Session \notin {x.src, scope.src} BY <1>3 DEF Sound, Discreet
<1>5. lines[i] \in Statements BY <1>1 DEF Statements
<1>6. ASSUME ~ChangesBeforeAsking(lines)
      PROVE  /\ GetsTo(lines, i + 1, run.token, run.answers)
             /\ scope = ScopeAt(lines, i + 1, run.answers)
             /\ \/ x = XAt(lines, i + 1, run.token, run.answers)
                \/ run.answer # Unset /\ x = run.x /\ LeavesX(lines, i)
  <2>1. /\ GetsTo(lines, i, run.token, run.answers) /\ run.scope = ScopeAt(lines, i, run.answers)
        /\ run.answer = Unset => run.x = XAt(lines, i, run.token, run.answers)
      BY <1>1, <1>6 DEF Sound, AsMeant
  <2>2. lines[i] = "copy" => run.token # Unset BY <1>1
  <2>3. lines[i] = "check" => ScopeAt(lines, i, run.answers).bumps < 2 BY <1>1, <2>1
  <2>4. lines[i] # "shape" BY <1>5 DEF Statements
  <2>5. GetsTo(lines, i + 1, run.token, run.answers) BY <1>2, <2>1, <2>2, <2>3, <2>4, GetsToNext
  <2>6. scope = ScopeAt(lines, i + 1, run.answers)
    <3>1. CASE lines[i] = "bump"
      <4>1. scope = Changed(run.scope, 1) BY <1>1, <3>1
      <4>2. ScopeAt(lines, i + 1, run.answers) = Changed(ScopeAt(lines, i, run.answers), 1) BY <3>1, ScopeBumped
      <4> QED BY <2>1, <4>1, <4>2
    <3>2. CASE lines[i] # "bump"
      <4>1. Leaves(lines, run.answers, i) BY <1>5, <3>2 DEF Leaves, Statements, Outward, Asking
      <4>2. ScopeAt(lines, i + 1, run.answers) = ScopeAt(lines, i, run.answers) BY <4>1, ScopeSame
      <4>3. scope = run.scope BY <1>1, <3>2
      <4> QED BY <2>1, <4>2, <4>3
    <3> QED BY <3>1, <3>2
  <2>7. CASE lines[i] \in {"assign", "copy"}
    <3>1. XAt(lines, i + 1, run.token, run.answers)
            = IF lines[i] = "copy" THEN From(run.token) ELSE ScopeAt(lines, i, run.answers)
        BY <2>7, XAssigned
    <3>2. x = IF lines[i] = "copy" THEN From(run.token) ELSE run.scope BY <1>1, <2>7
    <3> QED BY <2>1, <2>5, <2>6, <3>1, <3>2
  <2>8. CASE LeavesX(lines, i)
    <3>1. XAt(lines, i + 1, run.token, run.answers) = XAt(lines, i, run.token, run.answers) BY <2>8, XSame
    <3>2. x = run.x BY <1>1, <2>8 DEF LeavesX
    <3> QED BY <2>1, <2>5, <2>6, <2>8, <3>1, <3>2
  <2>9. CASE lines[i] = "count"
    <3>1. XAt(lines, i + 1, run.token, run.answers) = Changed(XAt(lines, i, run.token, run.answers), 1) BY <2>9, XCounted
    <3>2. x = Changed(run.x, 1) BY <1>1, <2>9
    <3>3. run.x = XAt(lines, i, run.token, run.answers)
      <4>1. CASE run.answer = Unset BY <2>1, <4>1
      <4>2. CASE run.answer # Unset
        <5>1. PICK p \in DOMAIN lines : OnTheWay(lines, run, p) BY <4>2 DEF Sound
        <5>2. p \in Nat /\ i <= p /\ lines[p] \in Asking BY <1>1, <5>1 DEF OnTheWay, IsTool
        <5>3. p # i BY <2>9, <5>2 DEF Asking
        <5>4. i \in i..p - 1 BY <1>2, <5>2, <5>3
        <5>5. ~Settles(lines, i, p)
          <6>1. ~\E k \in i..i - 1 : TRUE BY <1>2
          <6> QED BY <2>9, <5>4, <6>1 DEF Settles
        <5> QED BY <1>1, <1>6, <5>1, <5>5 DEF OnTheWay
      <4> QED BY <4>1, <4>2
    <3> QED BY <2>5, <2>6, <3>1, <3>2, <3>3
  <2> QED BY <2>7, <2>8, <2>9 DEF LeavesX
<1>7. Passing(lines, run, scope, x, run.answer) BY <1>1, <1>3, <1>4, <1>5, <1>6 DEF Passing
<1>8. Doing(lines, run, done, done) BY DEF Doing
<1> QED BY <1>7, <1>8, PassesSound

\* A request acts, and its response is ".".
LEMMA ActSound ==
    ASSUME NEW lines, IsTool(lines), NEW run, NEW done, Sound(lines, run, done), run.at = "running",
           run.line <= Len(lines), done \in [1..MaxLines -> Nat], lines[run.line] \in Outward,
           NEW q, q = NextLine(run, Response(run.line), run.x, Unset),
           NEW d, d = OnceMore(done, run.line)
    PROVE  Sound(lines, q, d) /\ q.at = "running" /\ \A k \in 1..MaxLines : d[k] <= 1
<1>1. PICK i \in DOMAIN lines : i = run.line BY AtLine
<1>2. /\ run \in Run /\ i \in Nat /\ 1 <= i /\ i <= MaxLines /\ run.x \in Value /\ run.token \in {Session, Upstream, Unset}
  <2>1. Len(lines) \in Nat /\ Len(lines) <= MaxLines /\ i <= Len(lines) /\ MaxLines \in Nat
      BY <1>1, VirtualToolsAssumption DEF IsTool
  <2> QED BY <1>1, <2>1, AtLine
<1>3. run.answer = Unset
  <2>1. lines[run.line] \notin Statements \cup Asking BY DEF Statements, Outward, Asking
  <2> QED BY <2>1, OnlyStatements
<1>4. PICK scope : scope = Response(i) OBVIOUS
<1>5. scope \in Value /\ scope.src = i BY <1>2, <1>4, VirtualToolsAssumption DEF Response, From, Value
<1>6. LeavesServer(lines) => Session \notin {run.x.src, scope.src}
    BY <1>2, <1>5, VirtualToolsAssumption DEF Sound, Discreet
<1>7. ASSUME ~ChangesBeforeAsking(lines)
      PROVE  /\ GetsTo(lines, i + 1, run.token, run.answers)
             /\ scope = ScopeAt(lines, i + 1, run.answers)
             /\ run.x = XAt(lines, i + 1, run.token, run.answers)
  <2>1. GetsTo(lines, i, run.token, run.answers) /\ run.x = XAt(lines, i, run.token, run.answers)
      BY <1>1, <1>3, <1>7 DEF Sound, AsMeant
  <2>2. lines[i] \notin {"copy", "check", "shape", "assign", "count"} /\ lines[i] \notin Asking BY <1>1 DEF Outward, Asking
  <2>3. GetsTo(lines, i + 1, run.token, run.answers) BY <1>2, <2>1, <2>2, GetsToNext
  <2>4. ScopeAt(lines, i + 1, run.answers) = From(IF lines[i] \in Asking THEN run.answers[i] ELSE i) BY <1>1, ScopeSet
  <2>5. XAt(lines, i + 1, run.token, run.answers) = XAt(lines, i, run.token, run.answers) BY <2>2, XSame DEF LeavesX
  <2> QED BY <1>4, <2>1, <2>2, <2>3, <2>4, <2>5 DEF Response
<1>8. \A k \in 1..MaxLines : d[k] = IF k = i THEN done[k] + 1 ELSE done[k] BY <1>1 DEF OnceMore
<1>9. Doing(lines, run, done, d) BY <1>1, <1>8 DEF Doing
<1>10. q = NextLine(run, scope, run.x, Unset) BY <1>1, <1>4
<1>11. Passing(lines, run, scope, run.x, Unset) BY <1>1, <1>2, <1>5, <1>6, <1>7 DEF Passing
<1>12. Sound(lines, q, d) /\ q.at = "running" BY <1>9, <1>10, <1>11, PassesSound
<1> QED BY <1>12 DEF Sound, Acted

\* A question that is not waited for leaves things as they are.
LEMMA HandOffSound ==
    ASSUME NEW lines, IsTool(lines), NEW run, NEW done, Sound(lines, run, done), run.at = "running",
           run.line <= Len(lines), done \in [1..MaxLines -> Nat], lines[run.line] \in Asking, HandsOff(lines, run.line),
           NEW q, q = NextLine(run, run.scope, run.x, Unset)
    PROVE  Sound(lines, q, done) /\ q.at = "running"
<1>1. PICK i \in DOMAIN lines : i = run.line BY AtLine
<1>2. /\ run \in Run /\ i \in 1..MaxLines /\ run.x \in Value /\ run.scope \in Value /\ run.token \in {Session, Upstream, Unset}
  <2>1. Len(lines) \in Nat /\ Len(lines) <= MaxLines /\ i \in 1..Len(lines) /\ MaxLines \in Nat
      BY <1>1, VirtualToolsAssumption DEF IsTool
  <2> QED BY <1>1, <2>1, AtLine
<1>3. LeavesServer(lines) => Session \notin {run.x.src, run.scope.src} BY DEF Sound, Discreet
<1>4. run.answers[i] = Nothing BY <1>1, <1>2 DEF Sound
<1>5. ASSUME ~ChangesBeforeAsking(lines)
      PROVE  /\ GetsTo(lines, i + 1, run.token, run.answers)
             /\ run.scope = ScopeAt(lines, i + 1, run.answers)
             /\ run.x = XAt(lines, i + 1, run.token, run.answers)
  <2>1. GetsTo(lines, i, run.token, run.answers) /\ run.scope = ScopeAt(lines, i, run.answers)
      BY <1>1, <1>5 DEF Sound, AsMeant
  <2>2. run.x = XAt(lines, i, run.token, run.answers)
    <3>1. CASE run.answer = Unset BY <1>1, <1>5, <3>1 DEF Sound, AsMeant
    <3>2. CASE run.answer # Unset
      <4>1. PICK p \in DOMAIN lines : OnTheWay(lines, run, p) BY <3>2 DEF Sound
      <4>2. p \in Nat /\ i \in Nat BY <1>2 DEF IsTool
      <4>3. p = i \/ i \in i..p - 1 BY <1>1, <4>1, <4>2 DEF OnTheWay
      <4>4. lines[i] \notin Statements BY <1>1 DEF Statements, Asking
      <4>5. p = i BY <1>1, <4>1, <4>3, <4>4 DEF OnTheWay
      <4> QED BY <1>1, <4>1, <4>5 DEF OnTheWay
    <3> QED BY <3>1, <3>2
  <2>3. lines[i] \notin {"copy", "check", "shape", "assign", "count", "bump"} /\ lines[i] \notin Outward BY <1>1 DEF Outward, Asking
  <2>4. GetsTo(lines, i + 1, run.token, run.answers) BY <1>2, <2>1, <2>3, GetsToNext
  <2>5. Leaves(lines, run.answers, i) BY <1>4, <2>3 DEF Leaves
  <2>6. ScopeAt(lines, i + 1, run.answers) = ScopeAt(lines, i, run.answers) BY <2>5, ScopeSame
  <2>7. XAt(lines, i + 1, run.token, run.answers) = XAt(lines, i, run.token, run.answers) BY <2>3, XSame DEF LeavesX
  <2> QED BY <2>1, <2>2, <2>4, <2>6, <2>7
<1>6. Passing(lines, run, run.scope, run.x, Unset) BY <1>1, <1>2, <1>3, <1>5 DEF Passing
<1>7. Doing(lines, run, done, done) BY DEF Doing
<1> QED BY <1>6, <1>7, PassesSound

\* A question takes its answer.
LEMMA TakeSound ==
    ASSUME NEW lines, IsTool(lines), NEW run, NEW done, Sound(lines, run, done), run.at = "running",
           run.line <= Len(lines), done \in [1..MaxLines -> Nat], lines[run.line] \in Asking, run.answer # Unset,
           ~(lines[run.line] = "form" /\ ~Fits(run.answer)),
           NEW scope, scope = IF run.answer = Nothing THEN run.scope ELSE From(run.answer),
           NEW q, q = NextLine(run, scope, run.x, Unset)
    PROVE  Sound(lines, q, done) /\ q.at = "running"
<1>1. PICK i \in DOMAIN lines : i = run.line BY AtLine
<1>2. /\ run \in Run /\ i \in 1..MaxLines /\ run.x \in Value /\ run.scope \in Value /\ run.token \in {Session, Upstream, Unset}
  <2>1. Len(lines) \in Nat /\ Len(lines) <= MaxLines /\ i \in 1..Len(lines) /\ MaxLines \in Nat
      BY <1>1, VirtualToolsAssumption DEF IsTool
  <2> QED BY <1>1, <2>1, AtLine
<1>3. OnTheWay(lines, run, i)
  <2>1. PICK p \in DOMAIN lines : OnTheWay(lines, run, p) BY DEF Sound
  <2>2. p \in Nat /\ i \in Nat BY <1>2 DEF IsTool
  <2>3. p = i \/ i \in i..p - 1 BY <1>1, <2>1, <2>2 DEF OnTheWay
  <2>4. lines[i] \notin Statements BY <1>1 DEF Statements, Asking
  <2>5. p = i BY <1>1, <2>1, <2>3, <2>4 DEF OnTheWay
  <2> QED BY <2>1, <2>5
<1>4. run.answer = run.answers[i] BY <1>1, <1>3 DEF OnTheWay, Fits
<1>5. run.answer \in Answers BY <1>2, <1>4 DEF Run
<1>6. /\ scope \in Value
      /\ scope.src = IF run.answer = Nothing THEN run.scope.src ELSE run.answer
  <2>1. CASE run.answer = Nothing BY <1>2, <2>1
  <2>2. CASE run.answer # Nothing
    <3>1. run.answer \in Contents \cup Payloads BY <1>5, <2>2 DEF Answers
    <3> QED BY <2>2, <3>1 DEF From, Value
  <2> QED BY <2>1, <2>2
<1>7. LeavesServer(lines) => Session \notin {run.x.src, scope.src}
    BY <1>5, <1>6, VirtualToolsAssumption DEF Sound, Discreet
<1>8. ASSUME ~ChangesBeforeAsking(lines)
      PROVE  /\ GetsTo(lines, i + 1, run.token, run.answers)
             /\ scope = ScopeAt(lines, i + 1, run.answers)
             /\ run.x = XAt(lines, i + 1, run.token, run.answers)
  <2>1. GetsTo(lines, i, run.token, run.answers) /\ run.scope = ScopeAt(lines, i, run.answers)
      BY <1>1, <1>8 DEF Sound, AsMeant
  <2>2. run.x = XAt(lines, i, run.token, run.answers) BY <1>1, <1>3, <1>8 DEF OnTheWay
  <2>3. lines[i] \in Asking /\ lines[i] \notin {"copy", "check", "shape", "assign", "count", "bump"} /\ lines[i] \notin Outward
      BY <1>1 DEF Outward, Asking
  <2>4. GetsTo(lines, i + 1, run.token, run.answers) BY <1>2, <2>1, <2>3, GetsToNext
  <2>5. XAt(lines, i + 1, run.token, run.answers) = XAt(lines, i, run.token, run.answers) BY <2>3, XSame DEF LeavesX
  <2>6. CASE run.answer = Nothing
    <3>1. Leaves(lines, run.answers, i) BY <1>4, <2>3, <2>6 DEF Leaves
    <3>2. ScopeAt(lines, i + 1, run.answers) = ScopeAt(lines, i, run.answers) BY <3>1, ScopeSame
    <3> QED BY <2>1, <2>2, <2>4, <2>5, <2>6, <3>2
  <2>7. CASE run.answer # Nothing
    <3>1. ScopeAt(lines, i + 1, run.answers) = From(IF lines[i] \in Asking THEN run.answers[i] ELSE i)
        BY <1>4, <2>3, <2>7, ScopeSet
    <3> QED BY <1>4, <2>2, <2>3, <2>4, <2>5, <2>7, <3>1
  <2> QED BY <2>6, <2>7
<1>9. Passing(lines, run, scope, run.x, Unset) BY <1>1, <1>2, <1>6, <1>7, <1>8 DEF Passing
<1>10. Doing(lines, run, done, done) BY DEF Doing
<1> QED BY <1>9, <1>10, PassesSound

\* A run that asks waits at the question.
LEMMA SuspendSound ==
    ASSUME NEW lines, IsTool(lines), NEW run, NEW done, Sound(lines, run, done), run.at = "running",
           run.line <= Len(lines), lines[run.line] \in Asking, ~HandsOff(lines, run.line),
           run.answer = Unset, run.session # Browser, NEW q, q = [run EXCEPT !.at = "suspended"]
    PROVE  /\ Sound(lines, q, done) /\ q.at = "suspended"
           /\ q.session = run.session /\ q.line = run.line /\ q.scope = run.scope /\ q.x = run.x
<1>1. run \in Run /\ run.line \in DOMAIN lines BY AtLine DEF Sound
<1>2. /\ q \in Run /\ q.at = "suspended" /\ q.session = run.session /\ q.home = run.home
      /\ q.line = run.line /\ q.scope = run.scope /\ q.x = run.x /\ q.token = run.token
      /\ q.answer = run.answer /\ q.answers = run.answers
    BY <1>1 DEF Run
<1>3. Acted(lines, q, done) BY <1>2 DEF Acted, Sound
<1>4. Discreet(lines, q) BY <1>2 DEF Discreet, Sound
<1>5. \A k \in 1..MaxLines : q.answers[k] # Nothing => k \in DOMAIN lines /\ lines[k] \in Asking /\ ~HandsOff(lines, k)
    BY <1>2 DEF Sound
<1>6. ~ChangesBeforeAsking(lines) => AsMeant(lines, q) BY <1>2 DEF AsMeant, Sound
<1>7. q.session = q.home /\ q.line <= Len(lines) + 1 BY <1>2 DEF Sound
<1> QED BY <1>1, <1>2, <1>3, <1>4, <1>5, <1>6, <1>7 DEF Sound

\* The first statement of a question's step.
LEMMA StartIs ==
    ASSUME NEW lines, IsTool(lines), NEW i \in DOMAIN lines
    PROVE  Start(lines, i) \in 1..i /\ \A k \in Start(lines, i)..i - 1 : lines[k] \in Statements
<1> DEFINE T == {j \in 1..i : \A k \in j..i - 1 : lines[k] \in Statements}
<1>1. i \in Nat /\ i >= 1 BY DEF IsTool
<1>2. i \in T /\ T \in SUBSET Nat BY <1>1
<1>3. Start(lines, i) = CHOOSE m \in T : \A j \in T : m <= j BY DEF Start, Min
<1>4. Start(lines, i) \in T
  <2> HIDE DEF T
  <2>1. PICK m \in T : \A j \in T : m <= j BY <1>2, LeastIs
  <2> QED BY <1>3, <2>1
<1> QED BY <1>4

\* A run resumed with an answer goes back to the first statement of the step that
\* asked, with what it had at the question.
LEMMA ResumeSound ==
    ASSUME NEW lines, IsTool(lines), NEW run, NEW done, Sound(lines, run, done), run.at = "suspended",
           done \in [1..MaxLines -> Nat], NEW v, NEW w \in Answers,
           v = w \/ (lines[run.line] = "form" /\ v = Bad),
           NEW first, first = Start(lines, run.line),
           NEW given, given = [run.answers EXCEPT ![run.line] = w],
           NEW q, q = [run EXCEPT !.at = "running", !.session = run.session, !.line = first, !.scope = run.scope,
                                  !.x = run.x, !.answer = v, !.answers = given]
    PROVE  Sound(lines, q, done) /\ q.at = "running"
<1>1. PICK i \in DOMAIN lines : i = run.line BY DEF Sound
<1>2. /\ run \in Run /\ i \in 1..MaxLines /\ i \in Nat /\ i <= Len(lines) /\ Len(lines) \in Nat /\ Len(lines) <= MaxLines
      /\ MaxLines \in Nat /\ DOMAIN lines = 1..Len(lines)
  <2>1. Len(lines) \in Nat /\ Len(lines) <= MaxLines /\ i \in 1..Len(lines) /\ MaxLines \in Nat
      BY <1>1, VirtualToolsAssumption DEF IsTool
  <2>2. DOMAIN lines = 1..Len(lines) BY DEF IsTool
  <2>3. run \in Run BY DEF Sound
  <2> QED BY <2>1, <2>2, <2>3
<1>3. first \in 1..i /\ \A k \in first..i - 1 : lines[k] \in Statements BY <1>1, StartIs
<1>4. first \in Nat /\ 1 <= first /\ first <= i /\ first \in 1..MaxLines + 1 BY <1>2, <1>3
<1>5. /\ given \in [1..MaxLines -> Answers] /\ given[i] = w
      /\ \A k \in 1..MaxLines : k = i \/ given[k] = run.answers[k]
    BY <1>1, <1>2 DEF Run
<1>6. /\ q \in Run /\ q.at = "running" /\ q.session = run.session /\ q.home = run.home
      /\ q.line = first /\ q.scope = run.scope /\ q.x = run.x /\ q.token = run.token
      /\ q.answer = v /\ q.answers = given
  <2>1. v \in Answers \cup {Bad, Unset} OBVIOUS
  <2> QED BY <1>2, <1>4, <1>5, <2>1 DEF Run
<1>7. lines[i] \in Asking /\ ~HandsOff(lines, i) BY <1>1 DEF Sound
<1>8. \A k \in 1..i : k = i \/ given[k] = run.answers[k] BY <1>2, <1>5
<1>9. ASSUME ~ChangesBeforeAsking(lines)
      PROVE  /\ \A k \in first..i - 1 : lines[k] # "bump"
             /\ Settles(lines, first, i)
             /\ run.x = XAt(lines, i, run.token, given)
             /\ GetsTo(lines, first, run.token, given)
             /\ run.scope = ScopeAt(lines, first, given)
  <2>1. /\ GetsTo(lines, i, run.token, run.answers) /\ run.scope = ScopeAt(lines, i, run.answers)
        /\ run.x = XAt(lines, i, run.token, run.answers)
      BY <1>1, <1>9 DEF Sound, AsMeant
  <2>2. \A k \in first..i - 1 : ~ChangesAgain(lines, i, k) BY <1>1, <1>7, <1>9 DEF ChangesBeforeAsking
  <2>3. (\A k \in first..i - 1 : lines[k] # "bump") /\ Settles(lines, first, i)
      BY <1>1, <2>2 DEF ChangesAgain, Settles
  <2>4. XAt(lines, i, run.token, run.answers) = XAt(lines, i, run.token, given)
    <3>1. \A k \in i..i - 1 : LeavesX(lines, k) BY <1>2
    <3>2. 1 <= i /\ i <= i /\ i <= Len(lines) + 1 BY <1>2
    <3>3. PICK a, token : a = run.answers /\ token = run.token OBVIOUS
    <3>4. Agree(given, a, i) BY <1>2, <1>8, <3>3 DEF Agree
    <3>5. XAt(lines, i, token, given) = XAt(lines, i, token, a) BY <1>2, <3>1, <3>2, <3>4, XEarlier
    <3> QED BY <3>3, <3>5
  <2>5. GetsTo(lines, first, run.token, given)
    <3>1. Agree(run.answers, given, first) BY <1>2, <1>4, <1>8 DEF Agree
    <3>2. i <= Len(lines) + 1 BY <1>2
    <3>3. PICK a, token : a = run.answers /\ token = run.token OBVIOUS
    <3>4. GetsTo(lines, i, token, a) /\ Agree(a, given, first) BY <2>1, <3>1, <3>3
    <3>5. GetsTo(lines, first, token, given) BY <1>2, <1>4, <3>2, <3>4, GetsToEarlier
    <3> QED BY <3>3, <3>5
  <2>6. ScopeAt(lines, first, given) = ScopeAt(lines, i, run.answers)
    <3>1. Agree(given, run.answers, first) BY <1>2, <1>4, <1>8 DEF Agree
    <3>2. \A k \in first..i - 1 : Leaves(lines, run.answers, k)
        BY <1>3, <2>3 DEF Leaves, Statements, Outward, Asking
    <3>3. i <= Len(lines) + 1 BY <1>2
    <3>4. PICK a : a = run.answers OBVIOUS
    <3>5. Agree(given, a, first) BY <3>1, <3>4
    <3>6. \A k \in first..i - 1 : Leaves(lines, a, k) BY <3>2, <3>4
    <3>7. ScopeAt(lines, first, given) = ScopeAt(lines, i, a) BY <1>2, <1>4, <3>3, <3>5, <3>6, ScopeEarlier
    <3> QED BY <3>4, <3>7
  <2> QED BY <2>1, <2>3, <2>4, <2>5, <2>6
<1>10. OnTheWay(lines, q, i) BY <1>1, <1>3, <1>4, <1>5, <1>6, <1>7, <1>9 DEF OnTheWay
<1>11. ~ChangesBeforeAsking(lines) => AsMeant(lines, q)
  <2>1. q.answer # Unset BY <1>6, VirtualToolsAssumption
  <2> QED BY <1>6, <1>9, <2>1 DEF AsMeant
<1>12. Acted(lines, q, done)
  <2> SUFFICES ASSUME NEW k \in 1..MaxLines
               PROVE  done[k] <= 1 /\ (done[k] # 0 => k < first /\ k \in DOMAIN lines /\ lines[k] \in Outward)
      BY <1>6 DEF Acted
  <2>1. done[k] <= 1 /\ (done[k] # 0 => k < i /\ k \in DOMAIN lines /\ lines[k] \in Outward) BY <1>1 DEF Sound, Acted
  <2>2. lines[k] \in Outward => lines[k] \notin Statements BY DEF Outward, Statements
  <2>3. k < i => k < first \/ k \in first..i - 1 BY <1>2, <1>4
  <2> QED BY <1>3, <2>1, <2>2, <2>3
<1>13. Discreet(lines, q) BY <1>6 DEF Discreet, Sound
<1>14. \A k \in 1..MaxLines : q.answers[k] # Nothing => k \in DOMAIN lines /\ lines[k] \in Asking /\ ~HandsOff(lines, k)
    BY <1>1, <1>5, <1>6, <1>7 DEF Sound
<1>15. q.session = q.home /\ q.line <= Len(lines) + 1 BY <1>2, <1>4, <1>6 DEF Sound
<1> QED BY <1>1, <1>6, <1>10, <1>11, <1>12, <1>13, <1>14, <1>15 DEF Sound

-----------------------------------------------------------------------------
(* Runs and suspensions                                                    *)

\* A run that is not suspended moves on its own.
LEMMA RunMoves ==
    ASSUME SInv, NEW r \in 1..MaxRuns, runs[r].at # "suspended", NEW q, NEW d \in [1..MaxLines -> Nat], Sound(tool, q, d),
           runs' = [runs EXCEPT ![r] = q], effects' = [effects EXCEPT ![r] = d],
           UNCHANGED <<tool, pending, nextId, reported>>,
           sent' \subseteq {"here", "away"} \X {Session, Upstream},
           <<"away", Session>> \notin sent'
    PROVE  SInv'
<1>1. /\ tool \in Tools /\ runs \in [1..MaxRuns -> Run] /\ pending \in [1..MaxIds -> Entry \cup {Nothing}] /\ nextId \in 1..MaxIds + 1
      /\ reported \in [1..MaxIds -> Payloads \cup {Nothing}] /\ effects \in [1..MaxRuns -> [1..MaxLines -> Nat]]
    BY DEF SInv, ToolTypeOK
<1>2. q \in Run BY DEF Sound
<1>3. /\ runs' \in [1..MaxRuns -> Run] /\ effects' \in [1..MaxRuns -> [1..MaxLines -> Nat]]
      /\ runs'[r] = q /\ effects'[r] = d
      /\ \A k \in 1..MaxRuns : k = r \/ (runs'[k] = runs[k] /\ effects'[k] = effects[k])
    BY <1>1, <1>2
<1>4. ToolTypeOK' BY <1>1, <1>3 DEF ToolTypeOK
<1>5. \A k \in 1..MaxRuns : Sound(tool', runs'[k], effects'[k]) BY <1>3 DEF SInv
<1>6. ASSUME NEW id \in 1..MaxIds
      PROVE  /\ pending'[id] # Nothing =>
                  id < nextId' /\ Waiting(tool', runs'[pending'[id].run], pending'[id], reported'[id])
             /\ id >= nextId' => reported'[id] = Nothing
  <2>1. /\ pending[id] # Nothing => id < nextId /\ Waiting(tool, runs[pending[id].run], pending[id], reported[id])
        /\ id >= nextId => reported[id] = Nothing
      BY DEF SInv
  <2>2. ASSUME pending[id] # Nothing PROVE runs'[pending[id].run] = runs[pending[id].run]
    <3>1. pending[id] \in Entry /\ runs[pending[id].run].at = "suspended" BY <2>1, <2>2 DEF Waiting
    <3>2. pending[id].run \in 1..MaxRuns BY <3>1 DEF Entry
    <3> QED BY <1>3, <3>1, <3>2
  <2> QED BY <2>1, <2>2
<1>7. \A id, other \in 1..MaxIds :
        pending'[id] # Nothing /\ pending'[other] # Nothing /\ pending'[id].run = pending'[other].run => id = other
    BY DEF SInv
<1> QED BY <1>4, <1>5, <1>6, <1>7 DEF SInv

\* A suspension is taken out, and its run goes on or not.
LEMMA EntryTaken ==
    ASSUME SInv, NEW id \in 1..MaxIds, pending[id] # Nothing, NEW r, r = pending[id].run, NEW q,
           Sound(tool, q, effects[r]), runs' = [runs EXCEPT ![r] = q], Taken(id),
           UNCHANGED <<tool, nextId, reported, effects, sent>>
    PROVE  SInv'
<1>1. /\ tool \in Tools /\ runs \in [1..MaxRuns -> Run] /\ pending \in [1..MaxIds -> Entry \cup {Nothing}] /\ nextId \in 1..MaxIds + 1
      /\ reported \in [1..MaxIds -> Payloads \cup {Nothing}] /\ effects \in [1..MaxRuns -> [1..MaxLines -> Nat]]
    BY DEF SInv, ToolTypeOK
<1>2. pending[id] \in Entry /\ r \in 1..MaxRuns /\ q \in Run BY <1>1 DEF Entry, Sound
<1>3. /\ runs' \in [1..MaxRuns -> Run] /\ runs'[r] = q
      /\ \A k \in 1..MaxRuns : k = r \/ runs'[k] = runs[k]
    BY <1>1, <1>2
<1>4. /\ pending' \in [1..MaxIds -> Entry \cup {Nothing}] /\ pending'[id] = Nothing
      /\ \A other \in 1..MaxIds : other = id \/ pending'[other] = pending[other]
    BY <1>1 DEF Taken
<1>5. ToolTypeOK' BY <1>1, <1>3, <1>4 DEF ToolTypeOK, SInv
<1>6. \A k \in 1..MaxRuns : Sound(tool', runs'[k], effects'[k]) BY <1>3 DEF SInv
<1>7. ASSUME NEW other \in 1..MaxIds
      PROVE  /\ pending'[other] # Nothing =>
                  other < nextId' /\ Waiting(tool', runs'[pending'[other].run], pending'[other], reported'[other])
             /\ other >= nextId' => reported'[other] = Nothing
  <2>1. /\ pending[other] # Nothing =>
             other < nextId /\ Waiting(tool, runs[pending[other].run], pending[other], reported[other])
        /\ other >= nextId => reported[other] = Nothing
      BY DEF SInv
  <2>2. ASSUME pending'[other] # Nothing
        PROVE  pending'[other] = pending[other] /\ runs'[pending[other].run] = runs[pending[other].run]
    <3>1. other # id /\ pending'[other] = pending[other] BY <1>4, <2>2
    <3>2. pending[other].run \in 1..MaxRuns BY <1>1, <2>2, <3>1 DEF Entry
    <3>3. pending[other].run # r BY <2>2, <3>1 DEF SInv
    <3> QED BY <1>3, <3>1, <3>2, <3>3
  <2> QED BY <2>1, <2>2
<1>8. \A one, other \in 1..MaxIds :
        pending'[one] # Nothing /\ pending'[other] # Nothing /\ pending'[one].run = pending'[other].run => one = other
    BY <1>4 DEF SInv
<1> QED BY <1>5, <1>6, <1>7, <1>8 DEF SInv

\* A suspension is changed while it waits, or left out.
LEMMA EntriesChange ==
    ASSUME SInv, pending' \in [1..MaxIds -> Entry \cup {Nothing}], reported' \in [1..MaxIds -> Payloads \cup {Nothing}],
           \A id \in 1..MaxIds :
               /\ id >= nextId => reported'[id] = reported[id]
               /\ pending'[id] # Nothing =>
                    /\ pending[id] # Nothing /\ pending'[id].run = pending[id].run
                    /\ Waiting(tool, runs[pending[id].run], pending'[id], reported'[id]),
           UNCHANGED <<tool, runs, nextId, effects, sent>>
    PROVE  SInv'
<1>1. ToolTypeOK' BY DEF ToolTypeOK, SInv
<1>2. \A k \in 1..MaxRuns : Sound(tool', runs'[k], effects'[k]) BY DEF SInv
<1>3. \A id \in 1..MaxIds :
        /\ pending'[id] # Nothing => id < nextId' /\ Waiting(tool', runs'[pending'[id].run], pending'[id], reported'[id])
        /\ id >= nextId' => reported'[id] = Nothing
    BY DEF SInv
<1>4. \A id, other \in 1..MaxIds :
        pending'[id] # Nothing /\ pending'[other] # Nothing /\ pending'[id].run = pending'[other].run => id = other
    BY DEF SInv
<1> QED BY <1>1, <1>2, <1>3, <1>4 DEF SInv

-----------------------------------------------------------------------------
(* The steps                                                               *)

\* What the invariant says of a run.
LEMMA RunIs ==
    ASSUME SInv, NEW r \in 1..MaxRuns
    PROVE  /\ IsTool(tool) /\ Sound(tool, runs[r], effects[r]) /\ effects[r] \in [1..MaxLines -> Nat]
           /\ effects = [effects EXCEPT ![r] = effects[r]]
           /\ sent \subseteq {"here", "away"} \X {Session, Upstream}
           /\ <<"away", Session>> \notin sent
           /\ \A i \in 1..MaxLines : effects[r][i] <= 1
<1>1. tool \in Tools /\ effects \in [1..MaxRuns -> [1..MaxLines -> Nat]] BY DEF SInv, ToolTypeOK
<1>2. Sound(tool, runs[r], effects[r]) BY DEF SInv
<1> QED BY <1>1, <1>2, ToolIs DEF SInv, ToolTypeOK, Sound, Acted

\* A call starts at the first line, with a token of its own.
LEMMA CallSound ==
    ASSUME NEW lines, IsTool(lines), NEW run, NEW done, Sound(lines, run, done), run.at = "none",
           NEW s \in Sessions \cup {Browser}, NEW token \in {Session, Upstream, Unset},
           LeavesServer(lines) => token # Session,
           NEW q, q = [NoRun EXCEPT !.at = "running", !.session = s, !.home = s, !.token = token]
    PROVE  Sound(lines, q, done)
<1>1. run = NoRun /\ run \in Run /\ \A i \in 1..MaxLines : done[i] = 0 BY DEF Sound
<1>2. /\ q \in Run /\ q.at = "running" /\ q.session = s /\ q.home = s /\ q.line = 1 /\ q.scope = From(0)
      /\ q.x = From(Unset) /\ q.token = token /\ q.answer = Unset /\ q.answers = [i \in 1..MaxLines |-> Nothing]
    BY <1>1 DEF Run, NoRun
<1>3. Acted(lines, q, done) BY <1>1, <1>2 DEF Acted
<1>4. Discreet(lines, q)
  <2>1. Session # 0 /\ Session # Unset BY VirtualToolsAssumption
  <2> QED BY <1>2, <2>1 DEF Discreet, From
<1>5. AsMeant(lines, q)
  <2>1. GetsTo(lines, 1, token, q.answers) BY DEF GetsTo
  <2>2. ScopeAt(lines, 1, q.answers) = From(0) /\ XAt(lines, 1, token, q.answers) = From(Unset) BY ScopeFirst
  <2> QED BY <1>2, <2>1, <2>2 DEF AsMeant
<1>6. \A i \in 1..MaxLines : q.answers[i] = Nothing BY <1>2
<1>7. q.line <= Len(lines) + 1 BY <1>2 DEF IsTool
<1> QED BY <1>2, <1>3, <1>4, <1>5, <1>6, <1>7 DEF Sound

\* A call takes a run that was none.
LEMMA CallKeeps ==
    ASSUME SInv, NEW r \in 1..MaxRuns, NEW s \in Sessions \cup {Browser}, NEW cred \in {Session, Upstream},
           CallTool(r, s, cred)
    PROVE  SInv'
<1>1. runs[r].at = "none" BY DEF CallTool
<1>2. PICK token : token = TokenFor(cred) OBVIOUS
<1>3. token \in {Session, Upstream, Unset} /\ (LeavesServer(tool) => token # Session)
    BY <1>2, VirtualToolsAssumption DEF TokenFor, virtualAuth
<1>4. PICK q : q = [NoRun EXCEPT !.at = "running", !.session = s, !.home = s, !.token = token] OBVIOUS
<1>5. runs' = [runs EXCEPT ![r] = q] BY <1>2, <1>4 DEF CallTool
<1>6. Sound(tool, q, effects[r]) BY <1>1, <1>3, <1>4, RunIs, CallSound
<1>7. UNCHANGED <<tool, pending, nextId, reported, effects, sent>> BY DEF CallTool
<1> QED BY <1>1, <1>5, <1>6, <1>7, RunIs, RunMoves

\* What goes out with a run's request or link.
LEMMA TellsNothing ==
    ASSUME SInv, NEW r \in 1..MaxRuns, NEW place \in {"here", "away"}, Tells(place, runs[r]),
           place = "away" => LeavesServer(tool)
    PROVE  /\ sent' \subseteq {"here", "away"} \X {Session, Upstream}
           /\ <<"away", Session>> \notin sent'
<1>1. sent' = sent \cup {<<place, t>> : t \in {runs[r].token, runs[r].x.src} \cap {Session, Upstream}} BY DEF Tells
<1>2. LeavesServer(tool) => Session \notin {runs[r].token, runs[r].x.src} BY RunIs DEF Sound, Discreet
<1> QED BY <1>1, <1>2, RunIs

\* A run that stops.
LEMMA StopKeeps ==
    ASSUME SInv, NEW r \in 1..MaxRuns, runs[r].at = "running", NEW at \in {"done", "failed"},
           at = "done" => runs[r].answer = Unset /\ (runs[r].line = Len(tool) + 1 \/ tool[runs[r].line] = "shape"),
           NEW d \in [1..MaxLines -> Nat], \A k \in 1..MaxLines : d[k] <= 1,
           runs' = [runs EXCEPT ![r] = [@ EXCEPT !.at = at]], effects' = [effects EXCEPT ![r] = d],
           UNCHANGED <<tool, pending, nextId, reported>>,
           sent' \subseteq {"here", "away"} \X {Session, Upstream},
           <<"away", Session>> \notin sent'
    PROVE  SInv'
<1>1. PICK run : run = runs[r] OBVIOUS
<1>2. PICK q : q = [run EXCEPT !.at = at] OBVIOUS
<1>3. runs' = [runs EXCEPT ![r] = q] BY <1>1, <1>2
<1>4. Sound(tool, run, effects[r]) /\ IsTool(tool) BY <1>1, RunIs
<1>5. Sound(tool, q, d) BY <1>1, <1>2, <1>4, StopsSound
<1> QED BY <1>3, <1>5, RunMoves

\* A run that fails.
LEMMA FailKeeps ==
    ASSUME SInv, NEW r \in 1..MaxRuns, runs[r].at = "running", Fails(r),
           UNCHANGED <<tool, pending, nextId, reported, effects, sent>>
    PROVE  SInv'
<1>1. runs' = [runs EXCEPT ![r] = [@ EXCEPT !.at = "failed"]] BY DEF Fails
<1> QED BY <1>1, RunIs, StopKeeps

\* A run that goes on.
LEMMA PassKeeps ==
    ASSUME SInv, NEW r \in 1..MaxRuns, runs[r].at = "running", NEW scope, NEW x, NEW answer, GoesOn(r, scope, x, answer),
           NEW run, run = runs[r], NEW d \in [1..MaxLines -> Nat], Sound(tool, NextLine(run, scope, x, answer), d),
           effects' = [effects EXCEPT ![r] = d], UNCHANGED <<tool, pending, nextId, reported>>,
           sent' \subseteq {"here", "away"} \X {Session, Upstream},
           <<"away", Session>> \notin sent'
    PROVE  SInv'
<1>1. PICK q : q = NextLine(run, scope, x, answer) OBVIOUS
<1>2. runs' = [runs EXCEPT ![r] = q] BY <1>1 DEF GoesOn
<1> QED BY <1>1, <1>2, RunMoves

\* A statement is passed, or fails.
LEMMA StatementKeeps ==
    ASSUME SInv, NEW r \in 1..MaxRuns, Statement(r)
    PROVE  SInv'
<1>1. PICK run : run = runs[r] OBVIOUS
<1>2. /\ run.at = "running" /\ run.line <= Len(tool) /\ UNCHANGED <<tool, pending, nextId, reported, effects, sent>>
    BY <1>1 DEF Statement, Ready
<1>3. CASE Fails(r) BY <1>1, <1>2, <1>3, FailKeeps
<1>4. ASSUME NEW scope, NEW x,
             GoesOn(r, scope, x, run.answer),
             \/ tool[run.line] = "assign" /\ scope = run.scope /\ x = run.scope
             \/ tool[run.line] = "copy" /\ run.token # Unset /\ scope = run.scope /\ x = From(run.token)
             \/ tool[run.line] = "count" /\ scope = run.scope /\ x = Changed(run.x, 1)
             \/ tool[run.line] = "bump" /\ scope = Changed(run.scope, 1) /\ x = run.x
             \/ tool[run.line] = "check" /\ run.scope.bumps < 2 /\ scope = run.scope /\ x = run.x
      PROVE  SInv'
  <2>1. IsTool(tool) /\ Sound(tool, run, effects[r]) /\ effects[r] \in [1..MaxLines -> Nat] BY <1>1, RunIs
  <2>2. PICK q : q = NextLine(run, scope, x, run.answer) OBVIOUS
  <2>3. Sound(tool, q, effects[r]) BY <1>2, <1>4, <2>1, <2>2, StatementSound
  <2> QED BY <1>1, <1>2, <1>4, <2>1, <2>2, <2>3, RunIs, PassKeeps
<1>5. CASE Ready(r, {"assign"}) /\ GoesOn(r, run.scope, run.scope, run.answer)
  <2>1. tool[run.line] = "assign" BY <1>1, <1>5 DEF Ready
  <2> QED BY <1>4, <1>5, <2>1
<1>6. CASE Ready(r, {"copy"}) /\ run.token # Unset /\ GoesOn(r, run.scope, From(run.token), run.answer)
  <2>1. tool[run.line] = "copy" BY <1>1, <1>6 DEF Ready
  <2> QED BY <1>4, <1>6, <2>1
<1>7. CASE Ready(r, {"bump"}) /\ GoesOn(r, Changed(run.scope, 1), run.x, run.answer)
  <2>1. tool[run.line] = "bump" BY <1>1, <1>7 DEF Ready
  <2> QED BY <1>4, <1>7, <2>1
<1>8. CASE Ready(r, {"check"}) /\ run.scope.bumps < 2 /\ GoesOn(r, run.scope, run.x, run.answer)
  <2>1. tool[run.line] = "check" BY <1>1, <1>8 DEF Ready
  <2> QED BY <1>4, <1>8, <2>1
<1>9. CASE Ready(r, {"count"}) /\ GoesOn(r, run.scope, Changed(run.x, 1), run.answer)
  <2>1. tool[run.line] = "count" BY <1>1, <1>9 DEF Ready
  <2> QED BY <1>4, <1>9, <2>1
<1>10. \/ Fails(r)
       \/ Ready(r, {"assign"}) /\ GoesOn(r, run.scope, run.scope, run.answer)
       \/ Ready(r, {"copy"}) /\ run.token # Unset /\ GoesOn(r, run.scope, From(run.token), run.answer)
       \/ Ready(r, {"count"}) /\ GoesOn(r, run.scope, Changed(run.x, 1), run.answer)
       \/ Ready(r, {"bump"}) /\ GoesOn(r, Changed(run.scope, 1), run.x, run.answer)
       \/ Ready(r, {"check"}) /\ run.scope.bumps < 2 /\ GoesOn(r, run.scope, run.x, run.answer)
    BY <1>1, Zenon DEF Statement
<1> QED BY <1>3, <1>5, <1>6, <1>7, <1>8, <1>9, <1>10

\* A request acts, whether or not it is answered as declared.
LEMMA ActKeeps ==
    ASSUME SInv, NEW r \in 1..MaxRuns, Act(r)
    PROVE  SInv'
<1>1. PICK run : run = runs[r] OBVIOUS
<1>2. /\ run.at = "running" /\ run.line <= Len(tool) /\ tool[run.line] \in Outward
      /\ UNCHANGED <<tool, pending, nextId, reported>>
    BY <1>1 DEF Act, Ready
<1>3. IsTool(tool) /\ Sound(tool, run, effects[r]) /\ effects[r] \in [1..MaxLines -> Nat] BY <1>1, RunIs
<1>4. PICK d : d = OnceMore(effects[r], run.line) OBVIOUS
<1>5. effects' = [effects EXCEPT ![r] = d] BY <1>1, <1>4 DEF Act
<1>6. d \in [1..MaxLines -> Nat]
  <2>1. PICK row \in [1..MaxLines -> Nat] : row = effects[r] BY <1>3
  <2>2. PICK i \in 1..MaxLines : i = run.line
    <3>1. Len(tool) \in Nat /\ Len(tool) <= MaxLines /\ MaxLines \in Nat
        BY <1>3, VirtualToolsAssumption DEF IsTool
    <3>2. run.line \in Nat /\ 1 <= run.line BY <1>2, <1>3, AtLine
    <3> QED BY <1>2, <3>1, <3>2
  <2>3. PICK n \in Nat : n = row[i] + 1
    <3>1. row[i] \in Nat BY <2>1, <2>2
    <3> QED BY <3>1
  <2>4. d = [row EXCEPT ![i] = n] BY <1>4, <2>1, <2>2, <2>3 DEF OnceMore
  <2> QED BY <2>1, <2>2, <2>4
<1>7. /\ sent' \subseteq {"here", "away"} \X {Session, Upstream}
      /\ <<"away", Session>> \notin sent'
  <2>1. CASE tool[run.line] = "get"
    <3>1. Tells("away", runs[r]) BY <1>1, <2>1 DEF Act
    <3>2. run.line \in DOMAIN tool BY <1>2, <1>3, AtLine
    <3>3. LeavesServer(tool) BY <2>1, <3>2 DEF LeavesServer
    <3> QED BY <3>1, <3>3, TellsNothing
  <2>2. CASE tool[run.line] # "get"
    <3>1. Tells("here", runs[r]) BY <1>1, <2>2 DEF Act
    <3> QED BY <3>1, TellsNothing
  <2> QED BY <2>1, <2>2
<1>8. PICK scope : scope = Response(run.line) OBVIOUS
<1>9. PICK q : q = NextLine(run, scope, run.x, Unset) OBVIOUS
<1>10. Sound(tool, q, d) /\ \A k \in 1..MaxLines : d[k] <= 1 BY <1>2, <1>3, <1>4, <1>8, <1>9, ActSound
<1>11. CASE GoesOn(r, scope, run.x, Unset) BY <1>1, <1>2, <1>5, <1>6, <1>7, <1>9, <1>10, <1>11, PassKeeps
<1>12. CASE Fails(r)
  <2>1. runs' = [runs EXCEPT ![r] = [@ EXCEPT !.at = "failed"]] BY <1>12 DEF Fails
  <2> QED BY <1>1, <1>2, <1>5, <1>6, <1>7, <1>10, <2>1, StopKeeps
<1> QED BY <1>1, <1>8, <1>11, <1>12 DEF Act

\* A run ends with no answer to spare.
LEMMA FinishKeeps ==
    ASSUME SInv, NEW r \in 1..MaxRuns, Finish(r)
    PROVE  SInv'
<1>1. PICK run : run = runs[r] OBVIOUS
<1>2. /\ run.at = "running" /\ UNCHANGED <<tool, pending, nextId, reported, effects, sent>>
      /\ runs' = [runs EXCEPT ![r] = [@ EXCEPT !.at = "done"]]
      /\ (run.line <= Len(tool) /\ tool[run.line] = "shape") \/ run.line > Len(tool)
    BY <1>1 DEF Finish, Ready
<1>3. IsTool(tool) /\ Sound(tool, run, effects[r]) BY <1>1, RunIs
<1>4. run.line > Len(tool) \/ tool[run.line] \notin Statements \cup Asking BY <1>2 DEF Statements, Asking
<1>5. run.answer = Unset BY <1>2, <1>3, <1>4, OnlyStatements
<1>6. run.line = Len(tool) + 1 \/ tool[run.line] = "shape"
  <2>1. run.line <= Len(tool) + 1 /\ run.line \in Nat /\ Len(tool) \in Nat BY <1>2, <1>3 DEF Sound, Run, IsTool
  <2> QED BY <1>2, <2>1
<1> QED BY <1>1, <1>2, <1>5, <1>6, RunIs, StopKeeps

\* A link is handed over.
LEMMA HandOffKeeps ==
    ASSUME SInv, NEW r \in 1..MaxRuns, HandOff(r)
    PROVE  SInv'
<1>1. PICK run : run = runs[r] OBVIOUS
<1>2. /\ run.at = "running" /\ run.line <= Len(tool) /\ tool[run.line] \in Asking /\ HandsOff(tool, run.line)
      /\ GoesOn(r, run.scope, run.x, Unset) /\ Tells("away", runs[r]) /\ UNCHANGED <<tool, pending, nextId, reported, effects>>
    BY <1>1 DEF HandOff, Ready
<1>3. IsTool(tool) /\ Sound(tool, run, effects[r]) /\ effects[r] \in [1..MaxLines -> Nat] BY <1>1, RunIs
<1>4. PICK q : q = NextLine(run, run.scope, run.x, Unset) OBVIOUS
<1>5. Sound(tool, q, effects[r]) BY <1>2, <1>3, <1>4, HandOffSound
<1>6. /\ sent' \subseteq {"here", "away"} \X {Session, Upstream}
      /\ <<"away", Session>> \notin sent'
  <2>1. tool[run.line] = "url" /\ run.line \in DOMAIN tool BY <1>2, <1>3, AtLine DEF HandsOff
  <2>2. LeavesServer(tool) BY <2>1 DEF LeavesServer
  <2> QED BY <1>2, <2>2, TellsNothing
<1> QED BY <1>1, <1>2, <1>3, <1>4, <1>5, <1>6, RunIs, PassKeeps

\* A question is answered, or its form is not filled as it asks.
LEMMA TakeAnswerKeeps ==
    ASSUME SInv, NEW r \in 1..MaxRuns, TakeAnswer(r)
    PROVE  SInv'
<1>1. PICK run : run = runs[r] OBVIOUS
<1>2. /\ run.at = "running" /\ run.line <= Len(tool) /\ tool[run.line] \in Asking /\ run.answer # Unset
      /\ UNCHANGED <<tool, pending, nextId, reported, effects, sent>>
    BY <1>1 DEF TakeAnswer, Ready
<1>3. CASE tool[run.line] = "form" /\ ~Fits(run.answer)
  <2>1. Fails(r) BY <1>1, <1>3 DEF TakeAnswer
  <2> QED BY <1>1, <1>2, <2>1, FailKeeps
<1>4. CASE ~(tool[run.line] = "form" /\ ~Fits(run.answer))
  <2>1. PICK scope : scope = IF run.answer = Nothing THEN run.scope ELSE From(run.answer) OBVIOUS
  <2>2. GoesOn(r, scope, run.x, Unset) BY <1>1, <1>4, <2>1 DEF TakeAnswer
  <2>3. IsTool(tool) /\ Sound(tool, run, effects[r]) /\ effects[r] \in [1..MaxLines -> Nat] BY <1>1, RunIs
  <2>4. PICK q : q = NextLine(run, scope, run.x, Unset) OBVIOUS
  <2>5. Sound(tool, q, effects[r]) BY <1>2, <1>4, <2>1, <2>3, <2>4, TakeSound
  <2> QED BY <1>1, <1>2, <2>2, <2>3, <2>4, <2>5, RunIs, PassKeeps
<1> QED BY <1>3, <1>4

\* "Tool requires elicitation" ends a run.
LEMMA AskInVainKeeps ==
    ASSUME SInv, NEW r \in 1..MaxRuns, AskInVain(r)
    PROVE  SInv'
<1>1. runs[r].at = "running" /\ Fails(r) /\ UNCHANGED <<tool, pending, nextId, reported, effects, sent>>
    BY DEF AskInVain, Ready
<1> QED BY <1>1, FailKeeps

\* A suspension is added under a fresh id, for a run that is not waiting.
LEMMA EntryAdded ==
    ASSUME SInv, NEW r \in 1..MaxRuns, runs[r].at = "running", NEW q, Sound(tool, q, effects[r]),
           runs' = [runs EXCEPT ![r] = q], nextId <= MaxIds, nextId' = nextId + 1,
           NEW entry, Waiting(tool, q, entry, Nothing), entry.run = r,
           pending' \in [1..MaxIds -> Entry \cup {Nothing}], pending'[nextId] = entry,
           \A id \in 1..MaxIds : id # nextId => pending'[id] \in {Nothing, pending[id]},
           UNCHANGED <<tool, reported, effects>>,
           sent' \subseteq {"here", "away"} \X {Session, Upstream}, <<"away", Session>> \notin sent'
    PROVE  SInv'
<1>1. /\ tool \in Tools /\ runs \in [1..MaxRuns -> Run] /\ pending \in [1..MaxIds -> Entry \cup {Nothing}] /\ nextId \in 1..MaxIds + 1
      /\ reported \in [1..MaxIds -> Payloads \cup {Nothing}] /\ effects \in [1..MaxRuns -> [1..MaxLines -> Nat]]
    BY DEF SInv, ToolTypeOK
<1>2. q \in Run /\ MaxIds \in Nat /\ nextId \in 1..MaxIds BY <1>1, VirtualToolsAssumption DEF Sound
<1>3. /\ runs' \in [1..MaxRuns -> Run] /\ runs'[r] = q
      /\ \A k \in 1..MaxRuns : k = r \/ runs'[k] = runs[k]
    BY <1>1, <1>2
<1>4. ToolTypeOK' BY <1>1, <1>2, <1>3 DEF ToolTypeOK
<1>5. \A k \in 1..MaxRuns : Sound(tool', runs'[k], effects'[k]) BY <1>3 DEF SInv
<1>6. ASSUME NEW id \in 1..MaxIds, pending[id] # Nothing
      PROVE  /\ id < nextId /\ Waiting(tool, runs[pending[id].run], pending[id], reported[id])
             /\ pending[id].run \in 1..MaxRuns /\ pending[id].run # r
  <2>1. id < nextId /\ Waiting(tool, runs[pending[id].run], pending[id], reported[id]) BY <1>6 DEF SInv
  <2>2. pending[id] \in Entry /\ runs[pending[id].run].at = "suspended" BY <2>1 DEF Waiting
  <2> QED BY <2>1, <2>2 DEF Entry
<1>7. ASSUME NEW id \in 1..MaxIds
      PROVE  /\ pending'[id] # Nothing =>
                  id < nextId' /\ Waiting(tool', runs'[pending'[id].run], pending'[id], reported'[id])
             /\ id >= nextId' => reported'[id] = Nothing
  <2>1. id >= nextId => reported[id] = Nothing BY DEF SInv
  <2>2. id >= nextId' => reported'[id] = Nothing BY <1>2, <2>1
  <2>3. CASE id = nextId
    <3>1. pending'[id] = entry /\ reported'[id] = Nothing BY <1>2, <2>1, <2>3
    <3>2. runs'[entry.run] = q BY <1>3
    <3>3. id < nextId' BY <1>2, <2>3
    <3> QED BY <2>2, <3>1, <3>2, <3>3
  <2>4. CASE id # nextId
    <3> SUFFICES ASSUME pending'[id] # Nothing
                 PROVE  id < nextId' /\ Waiting(tool', runs'[pending'[id].run], pending'[id], reported'[id])
        BY <2>2
    <3>1. pending'[id] = pending[id] /\ pending[id] # Nothing BY <2>4
    <3>2. runs'[pending[id].run] = runs[pending[id].run] BY <1>3, <1>6, <3>1
    <3>3. id < nextId' BY <1>2, <1>6, <3>1
    <3> QED BY <1>6, <3>1, <3>2, <3>3
  <2> QED BY <2>3, <2>4
<1>8. ASSUME NEW id \in 1..MaxIds, NEW other \in 1..MaxIds,
             pending'[id] # Nothing, pending'[other] # Nothing, pending'[id].run = pending'[other].run
      PROVE  id = other
  <2>1. \A k \in 1..MaxIds : k # nextId /\ pending'[k] # Nothing => pending'[k] = pending[k] /\ pending'[k].run # r
      BY <1>6
  <2>2. CASE id # nextId /\ other # nextId BY <1>8, <2>1, <2>2 DEF SInv
  <2>3. CASE id = nextId \/ other = nextId BY <1>8, <2>1, <2>3
  <2> QED BY <2>2, <2>3
<1> QED BY <1>4, <1>5, <1>7, <1>8 DEF SInv

\* A run asks: it waits at the question, with the only suspension of it.
LEMMA SuspendKeeps ==
    ASSUME SInv, NEW r \in 1..MaxRuns, Suspend(r)
    PROVE  SInv'
<1>1. PICK run : run = runs[r] OBVIOUS
<1>2. /\ run.at = "running" /\ run.line <= Len(tool) /\ tool[run.line] \in Asking /\ ~HandsOff(tool, run.line)
      /\ run.session # Browser /\ run.answer = Unset /\ nextId <= MaxIds
      /\ nextId' = nextId + 1 /\ UNCHANGED <<tool, reported, effects>>
      /\ runs' = [runs EXCEPT ![r] = [@ EXCEPT !.at = "suspended"]]
    BY <1>1 DEF Suspend, Ready
<1>3. IsTool(tool) /\ Sound(tool, run, effects[r]) BY <1>1, RunIs
<1>4. PICK q : q = [run EXCEPT !.at = "suspended"] OBVIOUS
<1>5. runs' = [runs EXCEPT ![r] = q] BY <1>1, <1>2, <1>4
<1>6. /\ Sound(tool, q, effects[r]) /\ q.at = "suspended"
      /\ q.session = run.session /\ q.line = run.line /\ q.scope = run.scope /\ q.x = run.x
    BY <1>2, <1>3, <1>4, SuspendSound
<1>7. PICK entry : entry = [run |-> r, session |-> run.session, line |-> run.line, scope |-> run.scope, x |-> run.x,
                            mode |-> tool[run.line], payload |-> Nothing, old |-> FALSE]
    OBVIOUS
<1>8. entry \in Entry
  <2>1. run \in Run /\ run.line \in DOMAIN tool /\ run.scope \in Value /\ run.x \in Value BY <1>2, <1>3, AtLine
  <2>2. run.line \in 1..MaxLines
    <3>1. Len(tool) \in Nat /\ Len(tool) <= MaxLines /\ MaxLines \in Nat BY <1>3, VirtualToolsAssumption DEF IsTool
    <3>2. run.line \in Nat /\ 1 <= run.line BY <1>2, <1>3, AtLine
    <3> QED BY <1>2, <3>1, <3>2
  <2>3. run.session \in Sessions BY <1>2, <2>1 DEF Run
  <2> QED BY <1>2, <1>7, <2>1, <2>2, <2>3 DEF Entry
<1>9. Waiting(tool, q, entry, Nothing) /\ entry.run = r BY <1>6, <1>7, <1>8 DEF Waiting
<1>10. /\ pending \in [1..MaxIds -> Entry \cup {Nothing}] /\ nextId \in 1..MaxIds
  <2>1. /\ pending \in [1..MaxIds -> Entry \cup {Nothing}] /\ nextId \in 1..MaxIds + 1 BY DEF SInv, ToolTypeOK
  <2> QED BY <1>2, <2>1, VirtualToolsAssumption
<1>11. pending' = [id \in 1..MaxIds |->
                    IF id = nextId THEN entry
                    ELSE IF pending[id] # Nothing /\ pending[id].old THEN Nothing ELSE pending[id]]
    BY <1>1, <1>7, Zenon DEF Suspend
<1>12. /\ pending' \in [1..MaxIds -> Entry \cup {Nothing}] /\ pending'[nextId] = entry
       /\ \A id \in 1..MaxIds : id # nextId => pending'[id] \in {Nothing, pending[id]}
    BY <1>8, <1>10, <1>11
<1>13. /\ sent' \subseteq {"here", "away"} \X {Session, Upstream}
       /\ <<"away", Session>> \notin sent'
  <2>1. CASE tool[run.line] = "url"
    <3>1. Tells("away", runs[r]) BY <1>1, <2>1 DEF Suspend
    <3>2. run.line \in DOMAIN tool BY <1>2, <1>3, AtLine
    <3>3. LeavesServer(tool) BY <2>1, <3>2 DEF LeavesServer
    <3> QED BY <3>1, <3>3, TellsNothing
  <2>2. CASE tool[run.line] # "url"
    <3>1. sent' = sent BY <1>1, <2>2 DEF Suspend
    <3> QED BY <3>1, RunIs
  <2> QED BY <2>1, <2>2
<1> QED BY <1>1, <1>2, <1>5, <1>6, <1>9, <1>12, <1>13, EntryAdded

\* What the invariant says of a suspension.
LEMMA EntryIs ==
    ASSUME SInv, NEW id \in 1..MaxIds, pending[id] # Nothing, NEW r, r = pending[id].run
    PROVE  /\ r \in 1..MaxRuns /\ runs[r].at = "suspended" /\ id < nextId
           /\ Waiting(tool, runs[r], pending[id], reported[id])
           /\ IsTool(tool) /\ Sound(tool, runs[r], effects[r]) /\ effects[r] \in [1..MaxLines -> Nat]
<1>1. id < nextId /\ Waiting(tool, runs[r], pending[id], reported[id]) BY DEF SInv
<1>2. r \in 1..MaxRuns /\ runs[r].at = "suspended" BY <1>1 DEF Waiting, Entry
<1> QED BY <1>1, <1>2, RunIs

\* A suspension taken out by a retry that does not answer it.
LEMMA RefusedKeeps ==
    ASSUME SInv, NEW id \in 1..MaxIds, pending[id] # Nothing, Taken(id), Fails(pending[id].run),
           UNCHANGED <<tool, nextId, reported, effects, sent>>
    PROVE  SInv'
<1>1. PICK r : r = pending[id].run OBVIOUS
<1>2. PICK run : run = runs[r] OBVIOUS
<1>3. Sound(tool, run, effects[r]) /\ run.at = "suspended" /\ IsTool(tool) BY <1>1, <1>2, EntryIs
<1>4. PICK q : q = [run EXCEPT !.at = "failed"] OBVIOUS
<1>5. runs' = [runs EXCEPT ![r] = [@ EXCEPT !.at = "failed"]] BY <1>1, Zenon DEF Fails
<1>6. runs' = [runs EXCEPT ![r] = q] BY <1>2, <1>4, <1>5
<1>7. \A k \in 1..MaxLines : effects[r][k] <= 1 BY <1>3 DEF Sound, Acted
<1>8. Sound(tool, q, effects[r]) BY <1>3, <1>4, <1>7, StopsSound
<1> QED BY <1>1, <1>6, <1>8, EntryTaken

\* A retry that is refused in any case.
LEMMA RetryInVainKeeps ==
    ASSUME SInv, NEW id \in 1..MaxIds, RetryInVain(id)
    PROVE  SInv'
BY RefusedKeeps DEF RetryInVain

\* A retry: the answer that counts is what the question was meant to have.
LEMMA RetryKeeps ==
    ASSUME SInv, NEW id \in 1..MaxIds, NEW s \in Sessions, NEW said \in Contents \cup {Bad, Nothing},
           Retry(id, s, said)
    PROVE  SInv'
<1>1. PICK r : r = pending[id].run OBVIOUS
<1>2. PICK run : run = runs[r] OBVIOUS
<1>3. PICK entry : entry = pending[id] OBVIOUS
<1>4. /\ pending[id] # Nothing /\ Taken(id) /\ (said = Bad => entry.mode = "form")
      /\ UNCHANGED <<tool, nextId, reported, effects, sent>>
    BY <1>3 DEF Retry
<1>5. /\ r \in 1..MaxRuns /\ run.at = "suspended" /\ Waiting(tool, run, entry, reported[id])
      /\ IsTool(tool) /\ Sound(tool, run, effects[r]) /\ effects[r] \in [1..MaxLines -> Nat]
    BY <1>1, <1>2, <1>3, <1>4, EntryIs
<1>6. /\ entry \in Entry /\ entry.session = run.session /\ entry.line = run.line /\ entry.scope = run.scope
      /\ entry.x = run.x /\ entry.mode = tool[run.line] /\ entry.payload = reported[id]
      /\ (entry.mode = "form" => reported[id] = Nothing)
    BY <1>5 DEF Waiting
<1>7. CASE ~SameSession(entry, s)
  <2>1. Fails(pending[id].run) BY <1>3, <1>7 DEF Retry
  <2> QED BY <1>4, <2>1, RefusedKeeps
<1>8. CASE SameSession(entry, s)
  <2>1. PICK v : v = AnswerOf(entry, said) OBVIOUS
  <2>2. PICK w : w = MeantBy(id, said) OBVIOUS
  <2>3. PICK q : q = Resumed(run, s, entry, v, w) OBVIOUS
  <2>4. runs' = [runs EXCEPT ![r] = q] BY <1>1, <1>2, <1>3, <1>8, <2>1, <2>2, <2>3 DEF Retry
  <2>5. reported[id] \in Payloads \cup {Nothing} BY DEF SInv, ToolTypeOK
  <2>6. Bad # Nothing BY VirtualToolsAssumption DEF Answers
  <2>7. w \in Answers BY <2>2, <2>5 DEF MeantBy, Answers
  <2>8. entry.mode \in {"form", "url"} BY <1>6 DEF Entry, Asking
  <2>9. v = w \/ (tool[run.line] = "form" /\ v = Bad)
    <3>1. CASE reported[id] # Nothing
      <4>1. entry.mode = "url" /\ entry.payload # Nothing BY <1>6, <2>8, <3>1
      <4>2. v = entry.payload BY <2>1, <4>1 DEF AnswerOf
      <4>3. w = reported[id] BY <2>2, <3>1 DEF MeantBy
      <4> QED BY <1>6, <4>2, <4>3
    <3>2. CASE reported[id] = Nothing
      <4>1. v = said BY <1>6, <2>1, <3>2 DEF AnswerOf
      <4>2. w = IF said = Bad THEN Nothing ELSE said BY <2>2, <3>2 DEF MeantBy
      <4> QED BY <1>4, <1>6, <4>1, <4>2
    <3> QED BY <3>1, <3>2
  <2>10. s = run.session BY <1>6, <1>8 DEF SameSession
  <2>11. PICK first : first = Start(tool, run.line) OBVIOUS
  <2>12. PICK given : given = [run.answers EXCEPT ![run.line] = w] OBVIOUS
  <2>13. q = [run EXCEPT !.at = "running", !.session = run.session, !.line = first, !.scope = run.scope,
                         !.x = run.x, !.answer = v, !.answers = given]
      BY <1>6, <2>3, <2>10, <2>11, <2>12 DEF Resumed
  <2>14. Sound(tool, q, effects[r]) BY <1>5, <2>7, <2>9, <2>11, <2>12, <2>13, ResumeSound
  <2> QED BY <1>1, <1>4, <2>4, <2>14, EntryTaken
<1> QED BY <1>7, <1>8

\* A report stands with its suspension.
LEMMA ReportKeeps ==
    ASSUME SInv, NEW id \in 1..MaxIds, NEW payload \in Payloads \cup {Nothing}, Report(id, payload)
    PROVE  SInv'
<1>1. /\ pending[id] # Nothing /\ pending[id].mode = "url"
      /\ pending' = [pending EXCEPT ![id].payload = payload]
      /\ reported' = [reported EXCEPT ![id] = payload]
      /\ UNCHANGED <<tool, runs, nextId, effects, sent>>
    BY DEF Report
<1>2. /\ pending \in [1..MaxIds -> Entry \cup {Nothing}] /\ reported \in [1..MaxIds -> Payloads \cup {Nothing}] /\ nextId \in Nat
    BY VirtualToolsAssumption DEF SInv, ToolTypeOK
<1>3. PICK old : old = pending[id] OBVIOUS
<1>4. Waiting(tool, runs[old.run], old, reported[id]) /\ id < nextId BY <1>1, <1>3, EntryIs
<1>5. old \in Entry /\ old.mode = "url" BY <1>1, <1>3, <1>4 DEF Waiting
<1>6. PICK new : new = [old EXCEPT !.payload = payload] OBVIOUS
<1>7. /\ new \in Entry /\ new.run = old.run /\ new.session = old.session /\ new.line = old.line
      /\ new.scope = old.scope /\ new.x = old.x /\ new.mode = old.mode /\ new.payload = payload
    BY <1>5, <1>6 DEF Entry
<1>8. pending' = [pending EXCEPT ![id] = new] BY <1>1, <1>3, <1>6
<1>9. Waiting(tool, runs[old.run], new, payload) BY <1>4, <1>5, <1>7 DEF Waiting
<1>10. /\ pending' \in [1..MaxIds -> Entry \cup {Nothing}] /\ pending'[id] = new
       /\ reported' \in [1..MaxIds -> Payloads \cup {Nothing}] /\ reported'[id] = payload
       /\ \A k \in 1..MaxIds : k # id => pending'[k] = pending[k] /\ reported'[k] = reported[k]
    BY <1>1, <1>2, <1>7, <1>8
<1>11. ASSUME NEW k \in 1..MaxIds
       PROVE  /\ k >= nextId => reported'[k] = reported[k]
              /\ pending'[k] # Nothing =>
                   /\ pending[k] # Nothing /\ pending'[k].run = pending[k].run
                   /\ Waiting(tool, runs[pending[k].run], pending'[k], reported'[k])
  <2>1. CASE k = id BY <1>1, <1>2, <1>3, <1>4, <1>7, <1>9, <1>10, <2>1
  <2>2. CASE k # id BY <1>10, <2>2, EntryIs
  <2> QED BY <2>1, <2>2
<1> QED BY <1>1, <1>10, <1>11, EntriesChange

\* A suspension grows old where it waits.
LEMMA AgeKeeps ==
    ASSUME SInv, NEW id \in 1..MaxIds, Age(id)
    PROVE  SInv'
<1>1. /\ pending[id] # Nothing /\ pending' = [pending EXCEPT ![id].old = TRUE]
      /\ UNCHANGED <<tool, runs, nextId, reported, effects, sent>>
    BY DEF Age
<1>2. /\ pending \in [1..MaxIds -> Entry \cup {Nothing}] /\ reported \in [1..MaxIds -> Payloads \cup {Nothing}]
    BY DEF SInv, ToolTypeOK
<1>3. PICK entry : entry = pending[id] OBVIOUS
<1>4. Waiting(tool, runs[entry.run], entry, reported[id]) BY <1>1, <1>3, EntryIs
<1>5. entry \in Entry BY <1>4 DEF Waiting
<1>6. PICK new : new = [entry EXCEPT !.old = TRUE] OBVIOUS
<1>7. /\ new \in Entry /\ new.run = entry.run /\ new.session = entry.session /\ new.line = entry.line
      /\ new.scope = entry.scope /\ new.x = entry.x /\ new.mode = entry.mode /\ new.payload = entry.payload
    BY <1>5, <1>6 DEF Entry
<1>8. pending' = [pending EXCEPT ![id] = new] BY <1>1, <1>3, <1>6
<1>9. Waiting(tool, runs[entry.run], new, reported[id]) BY <1>4, <1>7 DEF Waiting
<1>10. /\ pending' \in [1..MaxIds -> Entry \cup {Nothing}] /\ pending'[id] = new
       /\ \A k \in 1..MaxIds : k # id => pending'[k] = pending[k]
    BY <1>1, <1>2, <1>7, <1>8
<1>11. ASSUME NEW k \in 1..MaxIds, pending'[k] # Nothing
       PROVE  /\ pending[k] # Nothing /\ pending'[k].run = pending[k].run
              /\ Waiting(tool, runs[pending[k].run], pending'[k], reported'[k])
  <2>1. CASE k = id BY <1>1, <1>3, <1>7, <1>9, <1>10, <2>1
  <2>2. CASE k # id BY <1>1, <1>10, <1>11, <2>2, EntryIs
  <2> QED BY <2>1, <2>2
<1> QED BY <1>1, <1>2, <1>10, <1>11, EntriesChange

\* The ticker drops what is old.
LEMMA SweepKeeps ==
    ASSUME SInv, Sweep
    PROVE  SInv'
<1>1. /\ pending' = [id \in 1..MaxIds |-> IF pending[id] # Nothing /\ pending[id].old THEN Nothing ELSE pending[id]]
      /\ UNCHANGED <<tool, runs, nextId, reported, effects, sent>>
    BY DEF Sweep
<1>2. /\ pending \in [1..MaxIds -> Entry \cup {Nothing}] /\ reported \in [1..MaxIds -> Payloads \cup {Nothing}]
    BY DEF SInv, ToolTypeOK
<1>3. /\ pending' \in [1..MaxIds -> Entry \cup {Nothing}]
      /\ \A id \in 1..MaxIds : pending'[id] # Nothing => pending'[id] = pending[id]
    BY <1>1, <1>2
<1>4. ASSUME NEW k \in 1..MaxIds, pending'[k] # Nothing
      PROVE  /\ pending[k] # Nothing /\ pending'[k].run = pending[k].run
             /\ Waiting(tool, runs[pending[k].run], pending'[k], reported'[k])
  <2>1. pending'[k] = pending[k] BY <1>3, <1>4
  <2> QED BY <1>1, <1>4, <2>1, EntryIs
<1> QED BY <1>1, <1>2, <1>3, <1>4, EntriesChange

\* A restart fails the runs that were not over, and leaves none waiting.
LEMMA RestartKeeps ==
    ASSUME SInv, Restart
    PROVE  SInv'
<1>1. /\ runs' = [r \in 1..MaxRuns |-> [runs[r] EXCEPT !.at = IF @ \in {"running", "suspended"} THEN "failed" ELSE @]]
      /\ pending' = [id \in 1..MaxIds |-> Nothing]
      /\ UNCHANGED <<tool, nextId, reported, effects, sent>>
    BY DEF Restart
<1>2. ASSUME NEW r \in 1..MaxRuns
      PROVE  Sound(tool, runs'[r], effects[r])
  <2>1. PICK run : run = runs[r] OBVIOUS
  <2>2. Sound(tool, run, effects[r]) /\ IsTool(tool) BY <2>1, RunIs
  <2>3. runs'[r] = [run EXCEPT !.at = IF run.at \in {"running", "suspended"} THEN "failed" ELSE run.at]
      BY <1>1, <2>1
  <2>4. CASE run.at \in {"running", "suspended"}
    <3>1. PICK q : q = [run EXCEPT !.at = "failed"] OBVIOUS
    <3>2. runs'[r] = q BY <2>3, <2>4, <3>1
    <3>3. \A k \in 1..MaxLines : effects[r][k] <= 1 BY <2>2 DEF Sound, Acted
    <3>4. Sound(tool, q, effects[r]) BY <2>2, <2>4, <3>1, <3>3, StopsSound
    <3> QED BY <3>2, <3>4
  <2>5. CASE run.at \notin {"running", "suspended"}
    <3>1. run \in Run BY <2>2 DEF Sound
    <3>2. runs'[r] = run BY <2>3, <2>5, <3>1 DEF Run
    <3> QED BY <2>2, <3>2
  <2> QED BY <2>4, <2>5
<1>3. \A r \in 1..MaxRuns : runs'[r] \in Run BY <1>2 DEF Sound
<1>4. runs' \in [1..MaxRuns -> Run] BY <1>1, <1>3
<1>5. pending' \in [1..MaxIds -> Entry \cup {Nothing}] /\ \A id \in 1..MaxIds : pending'[id] = Nothing BY <1>1
<1>6. ToolTypeOK' BY <1>1, <1>4, <1>5 DEF SInv, ToolTypeOK
<1>7. \A r \in 1..MaxRuns : Sound(tool', runs'[r], effects'[r]) BY <1>1, <1>2
<1>8. \A id \in 1..MaxIds : id >= nextId' => reported'[id] = Nothing BY <1>1 DEF SInv
<1>9. <<"away", Session>> \notin sent' BY <1>1 DEF SInv
<1> QED BY <1>5, <1>6, <1>7, <1>8, <1>9 DEF SInv

\* At first nothing was called.
LEMMA ToolsStartSound == ToolInit => SInv
<1> SUFFICES ASSUME ToolInit PROVE SInv OBVIOUS
<1>1. /\ tool \in Tools /\ runs = [r \in 1..MaxRuns |-> NoRun]
      /\ pending = [id \in 1..MaxIds |-> Nothing] /\ nextId = 1
      /\ reported = [id \in 1..MaxIds |-> Nothing]
      /\ effects = [r \in 1..MaxRuns |-> [i \in 1..MaxLines |-> 0]]
      /\ sent = {}
    BY DEF ToolInit
<1>2. /\ NoRun \in Run /\ NoRun.at = "none" /\ NoRun.session = NoRun.home
      /\ NoRun.x = From(Unset) /\ NoRun.scope = From(0) /\ NoRun.token = Upstream
      /\ \A i \in 1..MaxLines : NoRun.answers[i] = Nothing
  <2>1. From(0) \in Value /\ From(Unset) \in Value
    <3>1. 0 \in 0..MaxLines BY VirtualToolsAssumption
    <3> QED BY <3>1 DEF From, Value
  <2>2. 1 \in 1..MaxLines + 1 BY VirtualToolsAssumption
  <2> QED BY <2>1, <2>2 DEF NoRun, Run, Answers
<1>3. PICK done : done = [i \in 1..MaxLines |-> 0] OBVIOUS
<1>4. done \in [1..MaxLines -> Nat] /\ \A i \in 1..MaxLines : done[i] = 0 BY <1>3
<1>5. Sound(tool, NoRun, done)
  <2>1. Acted(tool, NoRun, done) BY <1>2, <1>4 DEF Acted
  <2>2. Discreet(tool, NoRun)
    <3>1. Session \notin {Upstream, Unset, 0} BY VirtualToolsAssumption
    <3> QED BY <1>2, <3>1 DEF Discreet, From
  <2>3. AsMeant(tool, NoRun) BY <1>2 DEF AsMeant
  <2> QED BY <1>2, <1>4, <2>1, <2>2, <2>3 DEF Sound
<1>6. \A r \in 1..MaxRuns : runs[r] = NoRun /\ effects[r] = done BY <1>1, <1>3
<1>7. \A r \in 1..MaxRuns : Sound(tool, runs[r], effects[r]) BY <1>5, <1>6
<1>8. \A id \in 1..MaxIds : pending[id] = Nothing /\ reported[id] = Nothing BY <1>1
<1>9. ToolTypeOK
  <2>1. runs \in [1..MaxRuns -> Run] BY <1>1, <1>2
  <2>2. effects \in [1..MaxRuns -> [1..MaxLines -> Nat]] BY <1>1, <1>3, <1>4
  <2>3. nextId \in 1..MaxIds + 1 BY <1>1, VirtualToolsAssumption
  <2> QED BY <1>1, <2>1, <2>2, <2>3 DEF ToolTypeOK
<1> QED BY <1>1, <1>7, <1>8, <1>9 DEF SInv

\* Every step keeps the invariant.
LEMMA ToolsStaySound == SInv /\ [ToolNext]_toolVars => SInv'
<1> SUFFICES ASSUME SInv, [ToolNext]_toolVars PROVE SInv' OBVIOUS
<1>1. ASSUME NEW r \in 1..MaxRuns, NEW s \in Sessions \cup {Browser}, NEW cred \in {Session, Upstream}, CallTool(r, s, cred)
      PROVE  SInv'
    BY <1>1, CallKeeps
<1>2. ASSUME NEW r \in 1..MaxRuns, Statement(r) PROVE SInv' BY <1>2, StatementKeeps
<1>3. ASSUME NEW r \in 1..MaxRuns, Act(r) PROVE SInv' BY <1>3, ActKeeps
<1>4. ASSUME NEW r \in 1..MaxRuns, Finish(r) PROVE SInv' BY <1>4, FinishKeeps
<1>5. ASSUME NEW r \in 1..MaxRuns, HandOff(r) PROVE SInv' BY <1>5, HandOffKeeps
<1>6. ASSUME NEW r \in 1..MaxRuns, AskInVain(r) PROVE SInv' BY <1>6, AskInVainKeeps
<1>7. ASSUME NEW r \in 1..MaxRuns, Suspend(r) PROVE SInv' BY <1>7, SuspendKeeps
<1>8. ASSUME NEW r \in 1..MaxRuns, TakeAnswer(r) PROVE SInv' BY <1>8, TakeAnswerKeeps
<1>9. ASSUME NEW id \in 1..MaxIds, NEW s \in Sessions, NEW c \in Contents \cup {Bad, Nothing}, Retry(id, s, c)
      PROVE  SInv'
    BY <1>9, RetryKeeps
<1>10. ASSUME NEW id \in 1..MaxIds, NEW p \in Payloads \cup {Nothing}, Report(id, p) PROVE SInv' BY <1>10, ReportKeeps
<1>11. ASSUME NEW id \in 1..MaxIds, RetryInVain(id) PROVE SInv' BY <1>11, RetryInVainKeeps
<1>12. ASSUME NEW id \in 1..MaxIds, Age(id) PROVE SInv' BY <1>12, AgeKeeps
<1>13. CASE Sweep BY <1>13, SweepKeeps
<1>14. CASE Restart BY <1>14, RestartKeeps
<1>15. CASE UNCHANGED toolVars
  <2>1. UNCHANGED <<tool, runs, pending, nextId, reported, effects, sent>> BY <1>15 DEF toolVars
  <2> QED BY <2>1 DEF SInv, ToolTypeOK
<1> QED BY <1>1, <1>2, <1>3, <1>4, <1>5, <1>6, <1>7, <1>8, <1>9, <1>10, <1>11, <1>12, <1>13, <1>14, <1>15 DEF ToolNext

\* Runs and suspensions are always sound.
THEOREM ToolsAreSound == ToolSpec => []SInv
<1>1. ToolInit => SInv BY ToolsStartSound
<1>2. SInv /\ [ToolNext]_toolVars => SInv' BY ToolsStaySound
<1> QED BY <1>1, <1>2, PTL DEF ToolSpec

\* The result of a run is what its lines mean, with the answers its questions
\* should have had, for tools that change neither "." nor a variable from its own
\* value in a step that asks (runVirtualTool, resumeVirtualTool).
THEOREM ResultsStayAsMeant == ToolSpec => []ResultsAreAsMeant
<1>1. SInv => ResultsAreAsMeant
  <2> SUFFICES ASSUME SInv, ~ChangesBeforeAsking(tool), NEW r \in 1..MaxRuns, runs[r].at = "done"
               PROVE  /\ runs[r].line > Len(tool) \/ tool[runs[r].line] = "shape"
                      /\ GetsTo(tool, runs[r].line, runs[r].token, runs[r].answers)
                      /\ runs[r].scope = ScopeAt(tool, runs[r].line, runs[r].answers)
                      /\ runs[r].x = XAt(tool, runs[r].line, runs[r].token, runs[r].answers)
      BY DEF ResultsAreAsMeant, SameAsMeant
  <2>1. Sound(tool, runs[r], effects[r]) /\ IsTool(tool) BY RunIs
  <2>2. Len(tool) \in Nat BY <2>1 DEF IsTool
  <2> QED BY <2>1, <2>2 DEF Sound, AsMeant
<1> QED BY <1>1, ToolsAreSound, PTL

\* A run acts once in each step, is answered in the session that called it, and
\* never sends that session elsewhere (runVirtualTool, pendingElicits.take,
\* virtualAuth).
THEOREM RunsStayToThemselves == ToolSpec => []RunsKeepToThemselves
<1>1. SInv => RunsKeepToThemselves
  <2> SUFFICES ASSUME SInv PROVE RunsKeepToThemselves OBVIOUS
  <2>1. ToolTypeOK /\ SessionStaysHere BY DEF SInv, SessionStaysHere
  <2>2. \A r \in 1..MaxRuns : Sound(tool, runs[r], effects[r]) BY DEF SInv
  <2>3. EffectsHappenOnce BY <2>2 DEF Sound, Acted, EffectsHappenOnce
  <2>4. RunsStayInTheirSession BY <2>2 DEF Sound, RunsStayInTheirSession
  <2> QED BY <2>1, <2>3, <2>4 DEF RunsKeepToThemselves
<1> QED BY <1>1, ToolsAreSound, PTL

=============================================================================
