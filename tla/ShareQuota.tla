----------------------------- MODULE ShareQuota -----------------------------
(***************************************************************************)
(* What a share promises about downloads, whoever asks for them: a         *)
(* download is granted only through an open share that has grants left,    *)
(* grants are never taken back, and the grant that uses up the share also  *)
(* closes it.  Shares implements this.                                     *)
(***************************************************************************)
EXTENDS Naturals

CONSTANTS
    Tokens,        \* the shares
    MaxDownloads   \* MAX_SHARE_DOWNLOADS; 404 in the code

VARIABLES
    open,      \* the shares that are accessible
    granted    \* downloads granted, per share

Init ==
    /\ open \in SUBSET Tokens
    /\ granted = [s \in Tokens |-> 0]

\* One redirect is handed out.
Grant(s) ==
    /\ s \in open
    /\ granted[s] < MaxDownloads
    /\ granted' = [granted EXCEPT ![s] = @ + 1]
    /\ open' = IF granted[s] + 1 = MaxDownloads THEN open \ {s} ELSE open

\* Shares are created, cancelled, restored, deleted.
Manage ==
    /\ open' \in SUBSET Tokens
    /\ UNCHANGED granted

Next == Manage \/ \E s \in Tokens : Grant(s)

Spec == Init /\ [][Next]_<<open, granted>>
=============================================================================
