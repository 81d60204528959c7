---------------------------- MODULE MCOperations ----------------------------
(* An agent's shell and the user's over three pids; a checkout with up to    *)
(* two faults.                                                               *)
EXTENDS Operations, TLC
CONSTANTS agent, user
Shells == [t \in Terminals |->
  IF t = agent THEN {"link-start", "link-stop", "stop-all"} ELSE {"dev"}]
PidSymmetry == Permutations(Pids)

\* Faults and failures that the code treats as it says; the others are those of
\* the run of UnknownFailsClosed.
KnownFaults == {"dirty", "ahead", "no-upstream", "detached", "unreachable", "behind", "moved",
                "node", "python", "modules", "cli-old", "cli-missing"}
AllFaults == KnownFaults \cup {"local-upstream"}
ClosedProbes == {"branch", "upstream", "remote", "python", "modules", "cli"}

\* Bound: the user's shell is busy only while no control backend is recorded,
\* and of gui-upgrade and sync-skill, which share nothing, one is at work.
Scope ==
  /\ control # None => term[user].pc = "idle"
  /\ plan = Install!NoPlan \/ \A t \in Install!Targets : skills[t] = "absent"
=============================================================================
