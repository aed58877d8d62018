----------------------------- MODULE MCBoundary -----------------------------
(***************************************************************************)
(* Permissions and calls for the runs of Boundary.                         *)
(***************************************************************************)
EXTENDS Boundary, TLC

Perm(mode, allowedOps, blockedOps, maxCalls, maxValue, minValue, maxRecords, approval) ==
    [mode |-> mode, allowedOps |-> allowedOps, blockedOps |-> blockedOps,
     maxCalls |-> maxCalls, maxValue |-> maxValue, minValue |-> minValue,
     maxRecords |-> maxRecords, approval |-> approval]

Call(tool, op, mode, value, records) ==
    [tool |-> tool, op |-> op, mode |-> mode, value |-> value, records |-> records]

Open == Perm(WRITE, None, {}, None, None, None, None, FALSE)
Limited(n) == [Open EXCEPT !.maxCalls = n]

\* Two tools, the second limited to one call; the host may limit the first or
\* lift the limit of the second.
TwoTools == {"crm", "pay"}
LimitedPay == ("crm" :> Open) @@ ("pay" :> Limited(1))
Relimited == {[tool |-> "crm", perm |-> Limited(1)], [tool |-> "pay", perm |-> Limited(2)]}
OneCallEach == {Call("crm", None, READ_ONLY, None, None),
                Call("pay", None, READ_ONLY, None, None)}

\* A tool with every limit there is, one that needs approval, one whose limit
\* is no call at all, one unlisted.
StrictTools == {"crm", "pay", "bulk", "mail"}
Strict == ("pay" :> Perm(WRITE, {"send"}, {"drop"}, 1, One, 0, One, FALSE))
          @@ ("crm" :> [Open EXCEPT !.approval = TRUE])
          @@ ("bulk" :> Limited(0))
          @@ ("mail" :> None)

\* The host may replace the first tool's permission by one that grants no call.
Replacements == {[tool |-> "pay", perm |-> Limited(0)]}

\* A payment within every limit, and with one or two things wrong with it.
Good == Call("pay", "send", WRITE, One, One)
Ops == {None, "drop", "purge"}
Values == {None, -One, 2 * One}
RecordCounts == {None, 2 * One}
Probes ==
    {Good, [Good EXCEPT !.mode = READ_ONLY],
     [Good EXCEPT !.mode = EXECUTE, !.value = 2 * One]}
    \cup {[Good EXCEPT !.op = op, !.mode = EXECUTE] : op \in Ops}
    \cup {[Good EXCEPT !.value = v, !.records = None] : v \in Values}
    \cup {[Good EXCEPT !.records = n] : n \in RecordCounts}
    \cup {Call(tool, op, WRITE, None, None) :
            tool \in {"crm", "mail"}, op \in {None, "purge"}}
    \cup {Call("bulk", None, WRITE, None, None)}

Levels == AutonomyLevel
Unsupervised == {"AUTONOMOUS"}

Alike == Permutations(Threads)
=============================================================================
