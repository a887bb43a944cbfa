----------------------------- MODULE PatchSpec -----------------------------
(***************************************************************************)
(* What Patch::repatch promises its caller, in one step.  A list of group  *)
(* configurations is accepted exactly when every group is well formed,     *)
(* identities and names are unique, and no two fixtures share a DMX        *)
(* address unless their types have mutual affinity.  An accepted list      *)
(* replaces the patch, group by group in the order of the list, and every  *)
(* group whose identity survives with a compatible type keeps its state; a *)
(* refused list changes nothing.                                           *)
(***************************************************************************)
EXTENDS PatchContract

CONSTANTS ConfigLists,  \* the lists the operator may ask for
          NoRequest     \* no repatch is under way

VARIABLES patch,    \* [channels, non_channel, configs]
          request,  \* the list being patched
          outcome   \* what the last repatch returned

Init ==
    /\ patch = [channels |-> <<>>, non_channel |-> <<>>, configs |-> <<>>]
    /\ request = NoRequest /\ outcome = "none"

Request(cfgs) ==
    /\ request = NoRequest
    /\ request' = cfgs /\ UNCHANGED <<patch, outcome>>

Answer ==
    /\ request # NoRequest /\ request' = NoRequest
    /\ \/ /\ Patchable(request)
          /\ outcome' = "ok" /\ patch' = Patched(request, patch)
       \/ /\ ~Patchable(request)
          /\ outcome' = "error" /\ UNCHANGED patch

Operate(id) ==
    /\ request = NoRequest
    /\ patch' = [patch EXCEPT !.channels = operated(@, id),
                              !.non_channel = operated(@, id)]
    /\ UNCHANGED <<request, outcome>>

Next ==
    \/ \E cfgs \in ConfigLists : Request(cfgs)
    \/ Answer
    \/ \E id \in GroupIds : Operate(id)

vars == <<patch, request, outcome>>
Spec == Init /\ [][Next]_vars
=============================================================================
