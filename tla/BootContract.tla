---------------------------- MODULE BootContract ----------------------------
(***************************************************************************)
(* What the updater promises the engine, with no files, threads or server: *)
(* every patch of a release is "none", "ready" or "bad"; only a ready      *)
(* patch is launched; a launch ends in a success, which makes the patch    *)
(* the fallback, or leaves the patch bad; and bad is for good.             *)
(***************************************************************************)
EXTENDS Naturals

CONSTANTS Patches, None

VARIABLES
    status,   \* per patch: "none", "ready" or "bad"
    booting,  \* the patch being launched
    last,     \* the fallback: the last patch that booted
    withdrawn \* the patches the server has rolled back

cvars == <<status, booting, last, withdrawn>>

Init ==
    /\ status = [n \in Patches |-> "none"]
    /\ booting = None /\ last = None
    /\ withdrawn = {}

(* The ready patches of K are dropped; a bad one stays bad. *)
Drop(K) == [n \in Patches |-> IF n \in K /\ status[n] = "ready" THEN "none" ELSE status[n]]

(* Only a fallback that is neither ready nor bad may be given up. *)
KeepFallback == last' = last \/ (last' = None /\ status'[last] = "none")

Launch(n) ==
    /\ booting = None /\ status[n] = "ready"
    /\ booting' = n
    /\ UNCHANGED <<status, last, withdrawn>>

Succeed ==
    /\ booting # None
    /\ last' = booting /\ booting' = None
    /\ \E K \in SUBSET {n \in Patches : n < booting} : status' = Drop(K)
    /\ UNCHANGED withdrawn

Fail ==
    /\ booting # None
    /\ status' = [status EXCEPT ![booting] = "bad"] /\ booting' = None
    /\ KeepFallback
    /\ UNCHANGED withdrawn

(* A new patch may displace others, never the fallback. *)
Install(n) ==
    /\ booting = None /\ status[n] = "none"
    /\ \E K \in SUBSET (Patches \ {n, last}) : status' = [Drop(K) EXCEPT ![n] = "ready"]
    /\ UNCHANGED <<booting, last, withdrawn>>

Reject(n) ==
    /\ status' = [status EXCEPT ![n] = "bad"]
    /\ KeepFallback
    /\ UNCHANGED <<booting, withdrawn>>

Withdraw(n) ==
    /\ withdrawn' = withdrawn \cup {n}
    /\ UNCHANGED <<status, booting, last>>

(* Only what the server has withdrawn is removed outright. *)
Remove(K) ==
    /\ booting = None
    /\ status' = Drop(K)
    /\ KeepFallback
    /\ UNCHANGED <<booting, withdrawn>>

Next ==
    \/ \E n \in Patches : Launch(n) \/ Install(n) \/ Reject(n) \/ Withdraw(n)
    \/ Succeed \/ Fail
    \/ \E K \in SUBSET withdrawn : Remove(K)

Spec == Init /\ [][Next]_cvars

=============================================================================
