---------------------------- MODULE CachedConfig ----------------------------
(***************************************************************************)
(* What the configuration cache of one panel promises to the rest of the   *)
(* program: a register that remembers one configuration back.              *)
(*                                                                         *)
(* Storing a configuration keeps the one it replaces as "previous";        *)
(* nothing is ever dropped between the two.  A restore brings back a       *)
(* configuration the panel held earlier, and leaves no previous one (the   *)
(* history is one level deep).                                             *)
(***************************************************************************)
CONSTANTS Configs,   \* the configurations a panel may be sent
          NoConfig   \* stands for a missing configuration

VARIABLES current,   \* the configuration in force, NoConfig before the first
          previous,  \* the configuration it replaced, NoConfig if forgotten
          retired    \* the configurations that were in force and were replaced

vars == <<current, previous, retired>>

Init ==
    /\ current = NoConfig
    /\ previous = NoConfig
    /\ retired = {}

\* Put c in force and keep what it replaces.
Store(c) ==
    /\ current' = c
    /\ previous' = current
    /\ retired' = retired \cup ({current} \ {NoConfig})

\* Put an earlier configuration back in force.
Restore(c) ==
    /\ current # NoConfig
    /\ c \in retired
    /\ current' = c
    /\ previous' = NoConfig
    /\ retired' = retired \cup {current}

Next == \E c \in Configs : Store(c) \/ Restore(c)

Spec == Init /\ [][Next]_vars
=============================================================================
