------------------------------ MODULE Handles ------------------------------
(***************************************************************************)
(* Names: ClaimHandle of program/src/lib.rs, which decides who holds one;  *)
(* POST /api/v1/handle, the mirror of the claims and the lookups of        *)
(* server/server.js; saveHandle of client/app.js, which claims on chain,   *)
(* waits, and then records.  The server reads the chain through a node of  *)
(* its own; its database may be lost, or set back to a backup.             *)
(***************************************************************************)
EXTENDS Naturals

CONSTANTS
    Wallets,
    Names, NoName,      \* canonical names the program accepts
    Reserved,           \* those the server refuses to record
    MaxLosses           \* bound: how often the database is lost or set back

ASSUME HandleAssumption ==
    /\ NoName \notin Names /\ Reserved \subseteq Names
    /\ MaxLosses \in Nat

VARIABLES
    claims,             \* HandleClaim accounts, as pairs of name and wallet
    node_claims,        \* those the server's node has seen
    handles,            \* table: the name recorded for a wallet
    handle_claims,      \* table: the local copy of the claims
    saved_handles,      \* the handles table in the newest backup
    saver,              \* what the page of a wallet is doing
    claims_scan,        \* the claims a scan has read and not yet written
    losses,
    shown               \* history: every name ever shown, with its wallet

chain_side == <<claims, node_claims>>
tables == <<handles, handle_claims, saved_handles>>
handle_vars == <<chain_side, tables, saver, claims_scan, losses, shown>>

holds(n, w) == <<n, w>> \in claims
taken(n) == \E w \in Wallets : holds(n, w)
AtDesk == [ stage |-> "Idle", name |-> NoName ]
NoClaimsScan == [ stage |-> "Idle", found |-> {} ]
NoHandles == [w \in Wallets |-> NoName]

HandleInit ==
    /\ claims = {} /\ node_claims = {}
    /\ handles = NoHandles /\ saved_handles = NoHandles
    /\ handle_claims = {}
    /\ saver = [w \in Wallets |-> AtDesk]
    /\ claims_scan = NoClaimsScan
    /\ losses = 0 /\ shown = {}

-----------------------------------------------------------------------------
(* The program.                                                            *)

\* SLIP: an account that exists is written again.
claimable_anyway(n) == TRUE

claimable(n) == ~taken(n)

\* Only ever for the wallet that signs.
ClaimHandle(n, w) ==
    /\ claimable(n)
    /\ claims' = { p \in claims : p[1] # n } \union {<<n, w>>}

\* A transaction sent by other means than the page.
ClaimElsewhere(n, w) ==
    /\ ClaimHandle(n, w)
    /\ UNCHANGED <<node_claims, tables, saver, claims_scan, losses, shown>>

NodeCatchesUp ==
    /\ node_claims # claims /\ node_claims' = claims
    /\ UNCHANGED <<claims, tables, saver, claims_scan, losses, shown>>

-----------------------------------------------------------------------------
(* The page: saveHandle.                                                   *)

turn_to(w, stage) == saver' = [saver EXCEPT ![w].stage = stage]

\* The claim is looked up first, through nodes that may lag behind the chain.
saveHandle(w, n) ==
    /\ saver[w].stage = "Idle"
    /\ \E stage \in {"Claim"} \union (IF holds(n, w) THEN {"Record"} ELSE {}) :
          saver' = [saver EXCEPT ![w] = [ stage |-> stage, name |-> n ]]
    /\ UNCHANGED <<chain_side, tables, claims_scan, losses, shown>>

PageClaims(w) ==
    /\ saver[w].stage = "Claim"
    /\ ClaimHandle(saver[w].name, w)
    /\ turn_to(w, "Record")
    /\ UNCHANGED <<node_claims, tables, claims_scan, losses, shown>>

\* Refused, declined, timed out: saveHandle throws, the claim landed or not.
PageGivesUp(w) ==
    /\ saver[w].stage # "Idle"
    /\ saver' = [saver EXCEPT ![w] = AtDesk]
    /\ UNCHANGED <<chain_side, tables, claims_scan, losses, shown>>

-----------------------------------------------------------------------------
(* The server.                                                             *)

recordable(n, w) == n \notin Reserved /\ <<n, w>> \in node_claims

\* handle_key is unique: a second wallet's row would be refused by the table.
unique_in(table, n, w) == \A v \in Wallets \ {w} : table[v] # n

\* From a page that got this far, or from any client with a session.
PostHandle(n, w) ==
    /\ recordable(n, w) /\ unique_in(handles, n, w)
    /\ handles' = [handles EXCEPT ![w] = n]
    /\ handle_claims' = IF \E v \in Wallets : <<n, v>> \in handle_claims
                        THEN handle_claims ELSE handle_claims \union {<<n, w>>}
    /\ saver' = IF saver[w] = [ stage |-> "Record", name |-> n ]
                THEN [saver EXCEPT ![w] = AtDesk] ELSE saver
    /\ UNCHANGED <<chain_side, saved_handles, claims_scan, losses, shown>>

\* Lookups of a list, a profile, a dialog: name and wallet side by side.
handlesFor(w) == IF handles[w] = NoName THEN {} ELSE {<<handles[w], w>>}

Show(w) ==
    /\ handlesFor(w) # {}
    /\ shown' = shown \union handlesFor(w)
    /\ UNCHANGED <<chain_side, tables, saver, claims_scan, losses>>

ScanReads ==
    /\ claims_scan.stage = "Idle"
    /\ claims_scan' = [ stage |-> "Read", found |-> node_claims ]
    /\ UNCHANGED <<chain_side, tables, saver, losses, shown>>

\* An upsert, and never a delete.
mirrorHandleClaims(found) ==
    { q \in handle_claims : \A p \in found : p[1] # q[1] } \union found

ScanWrites ==
    /\ claims_scan.stage = "Read"
    /\ handle_claims' = mirrorHandleClaims(claims_scan.found)
    /\ claims_scan' = NoClaimsScan
    /\ UNCHANGED <<chain_side, handles, saved_handles, saver, losses, shown>>

BackupHandles ==
    /\ saved_handles' = handles
    /\ UNCHANGED <<chain_side, handles, handle_claims, saver, claims_scan, losses, shown>>

\* The database starts empty, or from the backup; a scan under way dies with it.
DatabaseLost ==
    /\ losses < MaxLosses /\ losses' = losses + 1
    /\ handles' \in {NoHandles, saved_handles}
    /\ handle_claims' = {}
    /\ claims_scan' = NoClaimsScan
    /\ UNCHANGED <<chain_side, saved_handles, saver, shown>>

HandleNext ==
    \/ \E n \in Names, w \in Wallets :
          ClaimElsewhere(n, w) \/ saveHandle(w, n) \/ PostHandle(n, w)
    \/ \E w \in Wallets : PageClaims(w) \/ PageGivesUp(w) \/ Show(w)
    \/ NodeCatchesUp
    \/ ScanReads
    \/ ScanWrites
    \/ BackupHandles
    \/ DatabaseLost

\* Every read of the board scans again, and a node does not lag for ever.
HandleFairness ==
    /\ WF_handle_vars(NodeCatchesUp)
    /\ WF_handle_vars(ScanReads) /\ WF_handle_vars(ScanWrites)

HandleSpec == HandleInit /\ [][HandleNext]_handle_vars /\ HandleFairness
-----------------------------------------------------------------------------
Desks == [ stage : {"Idle"}, name : {NoName} ]
         \union [ stage : {"Claim", "Record"}, name : Names ]

HandleTypeOK ==
    /\ claims \subseteq Names \X Wallets /\ node_claims \subseteq claims
    /\ handles \in [Wallets -> Names \union {NoName}]
    /\ saved_handles \in [Wallets -> Names \union {NoName}]
    /\ claims_scan.found \subseteq claims
    /\ saver \in [Wallets -> Desks]

(* "so nobody can ever pick up a name you built a reputation under":       *)
(* whatever wallets claim and rename, however pages and nodes lag, and     *)
(* though the database is lost or set back, a name that was shown for one  *)
(* wallet is never shown for another.                                      *)
NameNeverInherited ==
    \A p, q \in shown : p[1] = q[1] => p[2] = q[2]

(* handles, handle_key UNIQUE: a wallet whose claim the server's node      *)
(* confirms can always record it; the table never refuses the row for      *)
(* somebody else's.                                                        *)
RecordNeverClashes ==
    \A n \in Names, w \in Wallets : recordable(n, w) => unique_in(handles, n, w)

-----------------------------------------------------------------------------
(* "losing this database costs bios and nothing else": a wallet that was   *)
(* shown by its name is in the end shown by a name again.                  *)
LossCostsOnlyBios ==
    \A w \in Wallets :
        (\E n \in Names : <<n, w>> \in shown) ~> [](handles[w] # NoName)
=============================================================================
