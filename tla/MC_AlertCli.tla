---------------------------- MODULE MC_AlertCli ----------------------------
(* Small instances of AlertCli for TLC.                                    *)
EXTENDS AlertRefinement

CONSTANTS p1, p2

MCProcs == {p1, p2}
MCProcs1 == {p1}
MCNames == {"host"}
MCValues == {"HighCPU", "critical", "k1", "k2", "h1", "h2"}

\* A command line of alert.py with the options its subcommand does not take
\* left None.
Cmd(c, ok, lbls, ann, d, st, sev) ==
    [cmd |-> c, key |-> "k1", secretOk |-> ok, name |-> "HighCPU",
     sev |-> IF c \in {"push", "resolve"} THEN "critical" ELSE None,
     labels |-> lbls, annotations |-> ann, duration |-> d, state |-> st, severity |-> sev]

Host1 == [k |-> "host", v |-> "h1"]

\* push with and without --labels, with a bad --annotations item and with a
\* wrong secret; resolve; silence for 1 minute, for 0 minutes and for an
\* overflowing duration; list unfiltered and list --state active.
MixedArgs ==
    { Cmd("push", TRUE, <<Host1>>, <<>>, None, None, None),
      Cmd("push", TRUE, <<>>, <<Bad>>, None, None, None),
      Cmd("push", FALSE, <<>>, <<>>, None, None, None),
      Cmd("resolve", TRUE, <<Host1>>, <<>>, None, None, None),
      Cmd("silence", TRUE, <<Host1>>, <<>>, 1, None, None),
      Cmd("silence", TRUE, <<>>, <<>>, 0, None, None),
      Cmd("silence", TRUE, <<Bad>>, <<>>, 1, None, None),
      Cmd("silence", TRUE, <<>>, <<>>, Huge, None, None),
      Cmd("list", TRUE, <<>>, <<>>, None, "active", "critical"),
      Cmd("list", TRUE, <<>>, <<>>, None, None, None) }

\* --labels system_key=k2 given to a push with --key k1.
OverrideArgs == { Cmd("push", TRUE, <<[k |-> "system_key", v |-> "k2"]>>, <<>>, None, None, None) }

\* A push and a list --state firing, the state the help text suggests.
FiringListArgs ==
    { Cmd("push", TRUE, <<>>, <<>>, None, None, None),
      Cmd("list", TRUE, <<>>, <<>>, None, "firing", None) }
=============================================================================
