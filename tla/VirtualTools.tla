------------------------------- MODULE VirtualTools -------------------------------
(***************************************************************************)
(* Tools of virtual services: how a definition becomes steps, how a call    *)
(* runs them, and how a run waits for its user's answer.                    *)
(*                                                                         *)
(* A FORM or URL step suspends the run into a store in memory, under a      *)
(* fresh id.  The host shows the form or the link and calls again with the  *)
(* id; a link's target may report to the server before that.  Such a retry  *)
(* takes the suspension out of the store and starts again AT that step.     *)
(*                                                                         *)
(* A run goes by one line at a time.  A value is known by where it came     *)
(* from and how often it was changed.                                      *)
(***************************************************************************)
EXTENDS Naturals, Sequences, FiniteSets, FiniteSetsExt

CONSTANTS
    Tools,          \* definitions: sequences of lines
    Sessions,       \* MCP sessions of hosts
    Browser,        \* an app's page, which calls without one
    Contents,       \* what a user may answer
    Payloads,       \* what a link's target may report
    Bad,            \* an answer that does not fit its form
    Nothing,        \* no answer, no report, no suspension
    Session, Upstream,  \* the caller's two tokens
    Unset,          \* no token; a variable as the call's arguments left it
    MaxRuns, MaxIds, MaxLines   \* bounds of the model

\* Lines: $x = ., $x = $token, $x = $x + 1 (an assignment from what it assigns,
\* as $prev = $cur is with $cur = . next to it), a change of ".", an assert; a
\* request here, one elsewhere, a statement of SQL; a question; a shaping block.
Statements == {"assign", "copy", "count", "bump", "check"}
Outward == {"api", "get", "sql"}
Asking == {"form", "url"}
Lines == Statements \cup Outward \cup Asking \cup {"shape"}

Answers == Contents \cup Payloads \cup {Nothing}

ASSUME VirtualToolsAssumption ==
    /\ MaxRuns \in Nat \ {0} /\ MaxIds \in Nat \ {0} /\ MaxLines \in Nat \ {0}
    /\ \A t \in Tools : t \in Seq(Lines) /\ Len(t) \in 1..MaxLines
    /\ Browser \notin Sessions /\ Bad \notin Answers /\ Unset \notin Answers \cup {Bad}
    /\ Session \notin Nat \cup Answers \cup {Upstream, Unset} /\ Upstream # Unset

VARIABLES
    tool,           \* the definition of the tool called
    runs, pending, nextId,
    \* history
    reported,       \* what was last reported for an id, and acknowledged
    effects,        \* how often a step of a run has acted outside
    sent            \* tokens that left a run, and where to

toolVars == <<tool, runs, pending, nextId, reported, effects, sent>>

-----------------------------------------------------------------------------
(* Definitions                                                             *)

\* parseVirtualToolBody: a step is a request or a question and the statements
\* that lead up to it, of which this is the first.
Start(lines, i) == Min({j \in 1..i : \A k \in j..i - 1 : lines[k] \in Statements})

\* toolLeavesServer.
LeavesServer(lines) == \E i \in DOMAIN lines : lines[i] \in {"get", "url"}

\* A URL as the last step, unshaped, is handed over and not waited for.
HandsOff(lines, i) == lines[i] = "url" /\ i = Len(lines)

-----------------------------------------------------------------------------
(* State                                                                   *)

Value == [src: (0..MaxLines) \cup Contents \cup Payloads \cup {Session, Upstream, Unset}, bumps: Nat]
From(src) == [src |-> src, bumps |-> 0]
Changed(value, times) == [value EXCEPT !.bumps = @ + times]

\* A call's run: the line it is at, "." and $x there, the answer it was resumed
\* with, and (history) the answers that its questions should have had.
Run == [at: {"none", "running", "suspended", "done", "failed"}, session: Sessions \cup {Browser}, home: Sessions \cup {Browser},
        line: 1..MaxLines + 1, scope: Value, x: Value, token: {Session, Upstream, Unset},
        answer: Answers \cup {Bad, Unset}, answers: [1..MaxLines -> Answers]]

\* A suspension, of the question of a step; old, its time is over.
Entry == [run: 1..MaxRuns, session: Sessions, line: 1..MaxLines, scope: Value, x: Value,
          mode: Asking, payload: Payloads \cup {Nothing}, old: BOOLEAN]

NoRun == [at |-> "none", session |-> Browser, home |-> Browser,
          line |-> 1, scope |-> From(0), x |-> From(Unset), token |-> Upstream, answer |-> Unset,
          answers |-> [i \in 1..MaxLines |-> Nothing]]

ToolTypeOK ==
    /\ tool \in Tools
    /\ runs \in [1..MaxRuns -> Run]
    /\ pending \in [1..MaxIds -> Entry \cup {Nothing}]
    /\ nextId \in 1..MaxIds + 1
    /\ reported \in [1..MaxIds -> Payloads \cup {Nothing}]
    /\ effects \in [1..MaxRuns -> [1..MaxLines -> Nat]]
    /\ sent \subseteq {"here", "away"} \X {Session, Upstream}

ToolInit ==
    /\ tool \in Tools
    /\ runs = [r \in 1..MaxRuns |-> NoRun]
    /\ pending = [id \in 1..MaxIds |-> Nothing] /\ nextId = 1
    /\ reported = [id \in 1..MaxIds |-> Nothing]
    /\ effects = [r \in 1..MaxRuns |-> [i \in 1..MaxLines |-> 0]]
    /\ sent = {}

-----------------------------------------------------------------------------
(* A run                                                                   *)

\* "A Fresh Breath token never stands as the upstream token."
virtualAuth(cred) == IF cred = Session THEN Unset ELSE cred

\* The token a run sees, decided once: a tool that stays here acts as its caller.
TokenFor(cred) == IF LeavesServer(tool) THEN virtualAuth(cred) ELSE Session

\* A tool is called, over MCP or by a page, with what the caller's own session
\* resolved to for the upstream.
CallTool(r, s, cred) ==
    /\ runs[r].at = "none" /\ (r > 1 => runs[r - 1].at # "none")
    /\ runs' = [runs EXCEPT ![r] = [NoRun EXCEPT !.at = "running", !.session = s, !.home = s, !.token = TokenFor(cred)]]
    /\ UNCHANGED <<tool, pending, nextId, reported, effects, sent>>

Ready(r, at) == runs[r].at = "running" /\ runs[r].line <= Len(tool) /\ tool[runs[r].line] \in at
Fails(r) == runs' = [runs EXCEPT ![r] = [@ EXCEPT !.at = "failed"]]

\* The run goes on with the next line, and with an answer it has yet to use.
NextLine(run, scope, x, answer) == [run EXCEPT !.line = @ + 1, !.scope = scope, !.x = x, !.answer = answer]
GoesOn(r, scope, x, answer) == runs' = [runs EXCEPT ![r] = NextLine(@, scope, x, answer)]

\* One statement, in source order.  An assert fails on what was changed twice, and
\* so does naming a token that is not there.
Statement(r) ==
    LET run == runs[r] IN
    /\ \/ Ready(r, {"assign"}) /\ GoesOn(r, run.scope, run.scope, run.answer)
       \/ /\ Ready(r, {"copy"})
          /\ IF run.token # Unset THEN GoesOn(r, run.scope, From(run.token), run.answer) ELSE Fails(r)
       \/ Ready(r, {"count"}) /\ GoesOn(r, run.scope, Changed(run.x, 1), run.answer)
       \/ Ready(r, {"bump"}) /\ GoesOn(r, Changed(run.scope, 1), run.x, run.answer)
       \/ /\ Ready(r, {"check"})
          /\ IF run.scope.bumps < 2 THEN GoesOn(r, run.scope, run.x, run.answer) ELSE Fails(r)
    /\ UNCHANGED <<tool, pending, nextId, reported, effects, sent>>

\* buildFormSchema's fields, as validateFormContent checks them.
Fits(answer) == answer \notin {Bad, Nothing}

\* What a template may put into a request or a link: $token and $x.
Tells(place, run) == sent' = sent \cup {<<place, t>> : t \in {run.token, run.x.src} \cap {Session, Upstream}}

\* What comes back from the request of line i, as an object.
Response(i) == From(i)

OnceMore(row, i) == [row EXCEPT ![i] = @ + 1]

\* A request or a statement of SQL.  Its response is the scope, unless its
\* status is not one the step declares.
Act(r) ==
    LET run == runs[r] IN
    /\ Ready(r, Outward)
    /\ GoesOn(r, Response(run.line), run.x, Unset) \/ Fails(r)
    /\ Tells(IF tool[run.line] = "get" THEN "away" ELSE "here", run)
    /\ effects' = [effects EXCEPT ![r] = OnceMore(@, run.line)]
    /\ UNCHANGED <<tool, pending, nextId, reported>>

\* A shaping block, or the end of the lines: the scope is the result.
Finish(r) ==
    /\ Ready(r, {"shape"}) \/ (runs[r].at = "running" /\ runs[r].line > Len(tool))
    /\ runs' = [runs EXCEPT ![r] = [@ EXCEPT !.at = "done"]]
    /\ UNCHANGED <<tool, pending, nextId, reported, effects, sent>>

\* A link handed over as the result.
HandOff(r) ==
    LET run == runs[r] IN
    /\ Ready(r, Asking) /\ HandsOff(tool, run.line)
    /\ GoesOn(r, run.scope, run.x, Unset) /\ Tells("away", run)
    /\ UNCHANGED <<tool, pending, nextId, reported, effects>>

\* "Tool requires elicitation": a page cannot be asked.
AskInVain(r) ==
    /\ Ready(r, Asking) /\ ~HandsOff(tool, runs[r].line) /\ runs[r].session = Browser /\ Fails(r)
    /\ UNCHANGED <<tool, pending, nextId, reported, effects, sent>>

\* A form or a link to wait for; pendingElicits.add drops what is old.
Suspend(r) ==
    LET run == runs[r]
        mode == tool[run.line] IN
    /\ Ready(r, Asking) /\ ~HandsOff(tool, run.line)
    /\ run.session # Browser /\ run.answer = Unset /\ nextId <= MaxIds
    /\ pending' = [id \in 1..MaxIds |->
         IF id = nextId
         THEN [run |-> r, session |-> run.session, line |-> run.line, scope |-> run.scope, x |-> run.x,
               mode |-> mode, payload |-> Nothing, old |-> FALSE]
         ELSE IF pending[id] # Nothing /\ pending[id].old THEN Nothing ELSE pending[id]]
    /\ IF mode = "url" THEN Tells("away", run) ELSE UNCHANGED sent
    /\ nextId' = nextId + 1
    /\ runs' = [runs EXCEPT ![r] = [@ EXCEPT !.at = "suspended"]]
    /\ UNCHANGED <<tool, reported, effects>>

\* The question again, now with its answer: a form's fields are the scope, a
\* link's answer if there is one.
TakeAnswer(r) ==
    LET run == runs[r] IN
    /\ Ready(r, Asking) /\ run.answer # Unset
    /\ IF tool[run.line] = "form" /\ ~Fits(run.answer) THEN Fails(r)
       ELSE GoesOn(r, IF run.answer = Nothing THEN run.scope ELSE From(run.answer), run.x, Unset)
    /\ UNCHANGED <<tool, pending, nextId, reported, effects, sent>>

-----------------------------------------------------------------------------
(* Suspensions                                                             *)

\* Mutant: the suspension stays for the next retry.
Kept(id) == UNCHANGED pending

\* pendingElicits.take.
Taken(id) == pending' = [pending EXCEPT ![id] = Nothing]

SameSession(entry, s) == entry.session = s

\* Mutant: the host's answer goes before what was reported.
HostFirst(entry, content) == IF content = Nothing THEN entry.payload ELSE content

\* "It outranks the bare accept the host echoes."
AnswerOf(entry, content) == IF entry.mode = "url" /\ entry.payload # Nothing THEN entry.payload ELSE content

\* A run goes back to the first line of the step that asked, with an answer; what
\* it should have been is noted.
Resumed(run, s, entry, answer, meant) ==
    [run EXCEPT !.at = "running", !.session = s, !.line = Start(tool, entry.line), !.scope = entry.scope,
                !.x = entry.x, !.answer = answer, !.answers = [run.answers EXCEPT ![entry.line] = meant]]
MeantBy(id, content) ==
    IF reported[id] # Nothing THEN reported[id] ELSE IF content = Bad THEN Nothing ELSE content

\* resumeVirtualTool: the host calls again.  A retry that names another tool,
\* comes from another session or brings no answer is refused, and the
\* suspension is gone all the same.
Retry(id, s, content) ==
    /\ pending[id] # Nothing /\ Taken(id)
    /\ content = Bad => pending[id].mode = "form"
    /\ LET entry == pending[id]
           r == entry.run IN
       IF SameSession(entry, s)
       THEN runs' = [runs EXCEPT ![r] = Resumed(@, s, entry, AnswerOf(entry, content), MeantBy(id, content))]
       ELSE Fails(r)
    /\ UNCHANGED <<tool, nextId, reported, effects, sent>>

\* A retry that is declined, or for another tool, or without an answer.
RetryInVain(id) ==
    /\ pending[id] # Nothing /\ Taken(id)
    /\ Fails(pending[id].run)
    /\ UNCHANGED <<tool, nextId, reported, effects, sent>>

\* handleElicitationComplete: the link's target reports.
Report(id, payload) ==
    /\ pending[id] # Nothing /\ pending[id].mode = "url" /\ ~pending[id].old
    /\ pending' = [pending EXCEPT ![id].payload = payload]
    /\ reported' = [reported EXCEPT ![id] = payload]
    /\ UNCHANGED <<tool, runs, nextId, effects, sent>>

\* Fifteen minutes pass.
Age(id) ==
    /\ pending[id] # Nothing /\ ~pending[id].old
    /\ pending' = [pending EXCEPT ![id].old = TRUE]
    /\ UNCHANGED <<tool, runs, nextId, reported, effects, sent>>

\* The cleanup ticker.
Sweep ==
    /\ \E id \in 1..MaxIds : pending[id] # Nothing /\ pending[id].old
    /\ pending' = [id \in 1..MaxIds |-> IF pending[id] # Nothing /\ pending[id].old THEN Nothing ELSE pending[id]]
    /\ UNCHANGED <<tool, runs, nextId, reported, effects, sent>>

\* A restart forgets all of it.
Restart ==
    /\ runs' = [r \in 1..MaxRuns |-> [runs[r] EXCEPT !.at = IF @ \in {"running", "suspended"} THEN "failed" ELSE @]]
    /\ pending' = [id \in 1..MaxIds |-> Nothing]
    /\ UNCHANGED <<tool, nextId, reported, effects, sent>>

-----------------------------------------------------------------------------
(* Specification                                                           *)

ToolNext ==
    \/ \E r \in 1..MaxRuns :
        \/ \E s \in Sessions \cup {Browser}, cred \in {Session, Upstream} : CallTool(r, s, cred)
        \/ Statement(r) \/ Act(r) \/ Finish(r) \/ HandOff(r) \/ AskInVain(r)
        \/ Suspend(r) \/ TakeAnswer(r)
    \/ \E id \in 1..MaxIds :
        \/ \E s \in Sessions, c \in Contents \cup {Bad, Nothing} : Retry(id, s, c)
        \/ \E p \in Payloads \cup {Nothing} : Report(id, p)
        \/ RetryInVain(id) \/ Age(id)
    \/ Sweep \/ Restart

ToolSpec == ToolInit /\ [][ToolNext]_toolVars

-----------------------------------------------------------------------------
(* What a definition means                                                 *)

\* The last line before i that is one of these, or 0.
LastOf(S, i) == Max({j \in S : j < i} \cup {0})

\* "." at line i, if the questions had these answers: what the last request or
\* answered question left, and the changes since.
Setting(lines, answers) ==
    {j \in DOMAIN lines : lines[j] \in Outward \/ (lines[j] \in Asking /\ answers[j] # Nothing)}
ScopeAt(lines, i, answers) ==
    LET last == LastOf(Setting(lines, answers), i) IN
    [src |-> IF last # 0 /\ lines[last] \in Asking THEN answers[last] ELSE last,
     bumps |-> Cardinality({j \in last + 1..i - 1 : lines[j] = "bump"})]

\* $x there: what the last assignment from elsewhere gave it, and those from
\* itself since.
Assigning(lines) == {j \in DOMAIN lines : lines[j] \in {"assign", "copy"}}
AssignedBy(lines, i, token, answers) ==
    IF i = 0 THEN From(Unset) ELSE IF lines[i] = "copy" THEN From(token) ELSE ScopeAt(lines, i, answers)
XAt(lines, i, token, answers) ==
    LET last == LastOf(Assigning(lines), i) IN
    Changed(AssignedBy(lines, last, token, answers), Cardinality({j \in last + 1..i - 1 : lines[j] = "count"}))

\* And whether a run gets there.
GetsTo(lines, i, token, answers) ==
    \A j \in 1..i - 1 :
        /\ lines[j] = "copy" => token # Unset
        /\ lines[j] = "check" => ScopeAt(lines, j, answers).bumps < 2
        /\ lines[j] # "shape"

-----------------------------------------------------------------------------
(* Properties                                                              *)

\* The step that asks at line i, at its line j, changes "." or assigns $x from
\* itself without having assigned it from elsewhere before.
ChangesAgain(lines, i, j) ==
    \/ lines[j] = "bump"
    \/ lines[j] = "count" /\ \A k \in Start(lines, i)..j - 1 : lines[k] \notin {"assign", "copy"}

\* A step that asks and waits does: going over it again is not the same as once.
ChangesBeforeAsking(lines) ==
    \E i \in DOMAIN lines : lines[i] \in Asking /\ ~HandsOff(lines, i) /\ \E j \in Start(lines, i)..i - 1 : ChangesAgain(lines, i, j)

SameAsMeant(r) ==
    LET run == runs[r] IN
    run.at = "done" =>
        /\ run.line > Len(tool) \/ tool[run.line] = "shape"
        /\ GetsTo(tool, run.line, run.token, run.answers)
        /\ run.scope = ScopeAt(tool, run.line, run.answers) /\ run.x = XAt(tool, run.line, run.token, run.answers)

\* However often a run was suspended, and whatever was reported and retried
\* meanwhile, its result is what its lines mean with the answers given, the
\* last report acknowledged before the host's own; for tools that do not
\* change "." or a variable from its own value in a step that asks, which runs
\* the second time from what the first left.
ResultsAreAsMeant == ~ChangesBeforeAsking(tool) => \A r \in 1..MaxRuns : SameAsMeant(r)

\* No step of a run acts outside twice, however its host retries.
EffectsHappenOnce == \A r \in 1..MaxRuns, i \in 1..MaxLines : effects[r][i] <= 1

\* A run is answered, and its result returned, in the session that called.
RunsStayInTheirSession == \A r \in 1..MaxRuns : runs[r].at # "none" => runs[r].session = runs[r].home

\* The caller's own session never leaves this server, by a request, in a link
\* or through a variable it was copied to.
SessionStaysHere == <<"away", Session>> \notin sent

\* A run acts once, in one session, and keeps its caller's session here.
RunsKeepToThemselves ==
    /\ ToolTypeOK
    /\ EffectsHappenOnce
    /\ RunsStayInTheirSession
    /\ SessionStaysHere

=============================================================================
