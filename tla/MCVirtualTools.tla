------------------------------ MODULE MCVirtualTools ------------------------------
(* Instances of VirtualTools for TLC.                                      *)
EXTENDS VirtualTools, SequencesExt, TLC

\* A form between two effects; a link, with and without a report, between two;
\* two questions; a link to hand over; the session copied and sent; statements
\* before a question; a variable counted up, after its assignment in a step that
\* asks and before another; and every definition of one or two lines.
Definitions == {
    <<"sql", "assign", "form", "get", "bump", "shape">>,
    <<"assign", "url", "bump", "api", "shape">>,
    <<"api", "form", "assign", "url", "shape", "sql">>,
    <<"copy", "api", "check", "sql">>,
    <<"copy", "api", "url">>,
    <<"sql", "bump", "assign", "url", "shape">>,
    <<"bump", "check", "form", "assign", "sql">>,
    <<"api", "assign", "count", "form", "count", "sql">>,
    <<"count", "api", "copy", "count", "url", "get">> }
    \cup (BoundedSeq(Lines, 2) \ {<<>>})

Symmetry == Permutations(Sessions) \cup Permutations(Payloads)

=============================================================================
