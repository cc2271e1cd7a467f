------------------------------- MODULE Inbox -------------------------------
(***************************************************************************)
(* What a wallet has been told: the notifications table, its two routes in *)
(* server/server.js, and loadInbox, openInbox and markInboxRead of one     *)
(* page of client/app.js, whose requests overtake one another and whose    *)
(* wallet may change while they are under way.                             *)
(***************************************************************************)
EXTENDS Naturals, SequencesExt

CONSTANTS
    People,             \* wallets
    NoOne,
    Events,             \* dedupe keys
    AddressedTo,        \* whom each of them concerns
    Loads,              \* loads of the list a page may have under way
    LIST_LIMIT

ASSUME InboxAssumption ==
    /\ NoOne \notin People /\ AddressedTo \in [Events -> People]
    /\ LIST_LIMIT \in Nat \ {0}

VARIABLES
    notices,            \* keys of the rows, in the order of their ids
    read_at,            \* keys of the rows that are marked read
    reader,             \* whose session the page has
    inbox,              \* state.inbox: the keys of its rows, and the unread ones
    load,               \* loads under way: for whom, and the answer on its way
    mark                \* requests to mark read: for whom, and how far they got

inbox_vars == <<notices, read_at, reader, inbox, load, mark>>

Nothing == [ rows |-> {}, unread |-> {} ]
NoLoad == [ stage |-> "Idle", by |-> NoOne, answer |-> Nothing ]
NoMark == [ stage |-> "Idle", by |-> NoOne ]

InboxInit ==
    /\ notices = <<>> /\ read_at = {}
    /\ reader = NoOne /\ inbox = Nothing
    /\ load = [l \in Loads |-> NoLoad] /\ mark = NoMark

-----------------------------------------------------------------------------
(* The server.                                                             *)

\* Every scan says it again; the key is unique.
RecordEvent(k) ==
    /\ ~Contains(notices, k)
    /\ notices' = Append(notices, k)
    /\ UNCHANGED <<read_at, reader, inbox, load, mark>>

\* SLIP: the oldest rows are listed.
listed_oldest(w) ==
    LET mine == { n \in DOMAIN notices : AddressedTo[notices[n]] = w }
    IN  { notices[n] : n \in { m \in mine :
                               Cardinality({ k \in mine : k < m }) < LIST_LIMIT } }

\* ORDER BY id DESC LIMIT
listed(w) ==
    LET mine == { n \in DOMAIN notices : AddressedTo[notices[n]] = w }
    IN  { notices[n] : n \in { m \in mine :
                               Cardinality({ k \in mine : k > m }) < LIST_LIMIT } }

LoadServed(l) ==
    LET rows == listed(load[l].by) IN
    /\ load[l].stage = "Asked"
    /\ load' = [load EXCEPT ![l] = [ @ EXCEPT !.stage = "Answered",
                                    !.answer = [ rows |-> rows, unread |-> rows \ read_at ] ]]
    /\ UNCHANGED <<notices, read_at, reader, inbox, mark>>

\* All unread rows of the wallet, those behind the limit and the newest too.
marks(w) == { k \in ToSet(notices) : AddressedTo[k] = w }

MarkServed ==
    /\ mark.stage = "Asked"
    /\ read_at' = read_at \union marks(mark.by)
    /\ mark' = [mark EXCEPT !.stage = "Answered"]
    /\ UNCHANGED <<notices, reader, inbox, load>>

-----------------------------------------------------------------------------
(* The page.                                                               *)

\* Signing in as another, or out, leaves the rows of the last load on the page.
SignsIn(w) ==
    /\ reader # w /\ reader' = w
    /\ UNCHANGED <<notices, read_at, inbox, load, mark>>

\* With every refresh of the board: at boot, after the wallet's own actions, and when
\* a commission the page has not seen is pushed.  Without a session there is no inbox.
loadInbox(l) ==
    /\ load[l].stage = "Idle"
    /\ IF reader = NoOne
       THEN inbox' = Nothing /\ UNCHANGED load
       ELSE /\ load' = [load EXCEPT ![l] = [NoLoad EXCEPT !.stage = "Asked", !.by = reader]]
            /\ UNCHANGED inbox
    /\ UNCHANGED <<notices, read_at, reader, mark>>

LoadAnswered(l) ==
    /\ load[l].stage = "Answered"
    /\ inbox' = load[l].answer
    /\ load' = [load EXCEPT ![l] = NoLoad]
    /\ UNCHANGED <<notices, read_at, reader, mark>>

\* What fails leaves the page as it is.
RequestFails ==
    /\ \/ \E l \in Loads : load[l].stage # "Idle" /\ load' = [load EXCEPT ![l] = NoLoad]
                           /\ UNCHANGED mark
       \/ mark.stage # "Idle" /\ mark' = NoMark /\ UNCHANGED load
    /\ UNCHANGED <<notices, read_at, reader, inbox>>

\* The bell: opening the list is reading it.
openInbox ==
    /\ reader # NoOne /\ mark.stage = "Idle" /\ inbox.unread # {}
    /\ mark' = [ stage |-> "Asked", by |-> reader ]
    /\ UNCHANGED <<notices, read_at, reader, inbox, load>>

\* Whatever list the page has by then.
MarkAnswered ==
    /\ mark.stage = "Answered"
    /\ inbox' = [inbox EXCEPT !.unread = {}]
    /\ mark' = NoMark
    /\ UNCHANGED <<notices, read_at, reader, load>>

InboxNext ==
    \/ \E k \in Events : RecordEvent(k)
    \/ \E l \in Loads : loadInbox(l) \/ LoadServed(l) \/ LoadAnswered(l)
    \/ RequestFails
    \/ MarkServed
    \/ MarkAnswered
    \/ openInbox
    \/ \E w \in People \union {NoOne} : SignsIn(w)

\* The network does not fail for ever; when the page loads is up to its user.
InboxFairness ==
    \A l \in Loads : SF_inbox_vars(LoadServed(l)) /\ SF_inbox_vars(LoadAnswered(l))

InboxSpec == InboxInit /\ [][InboxNext]_inbox_vars /\ InboxFairness

-----------------------------------------------------------------------------
\* As many rows as a list has came for the same wallet after this one.
crowded_out(k) ==
    LIST_LIMIT <= Cardinality({ n \in DOMAIN notices :
        /\ AddressedTo[notices[n]] = AddressedTo[k]
        /\ \E m \in 1 .. n - 1 : notices[m] = k })

(* GET /api/v1/notifications: late answers, failing requests and a change  *)
(* of wallet may leave another list on the page for a while; but once the  *)
(* wallet stays, and if the page is refreshed again and again, no notice   *)
(* of that wallet, read or unread, stays missing from its list, unless     *)
(* newer ones have crowded it out.                                         *)
NoticesAreListed ==
    /\ <>[][UNCHANGED reader]_inbox_vars
    /\ []<><<\E l \in Loads : loadInbox(l)>>_inbox_vars
    => []<>(\A k \in Events :
              Contains(notices, k) /\ reader = AddressedTo[k] => k \in inbox.rows \/ crowded_out(k))
=============================================================================
