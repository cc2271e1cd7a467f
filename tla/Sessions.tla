------------------------------ MODULE Sessions ------------------------------
(***************************************************************************)
(* Signing in with a wallet: the challenge, verify and logout routes of    *)
(* server/server.js, and connectWallet, authenticate, restoreSession and   *)
(* reattachProvider of one page of client/app.js, which read and write the *)
(* page's state between calls that take their time.                        *)
(*                                                                         *)
(* Other clients ask for challenges too, and repeat what they have signed. *)
(***************************************************************************)
EXTENDS Naturals

CONSTANTS
    Accounts,           \* wallet addresses
    NoAccount,
    Attempts,           \* authenticate calls a page may have under way together
    NONCE_LIFE, SESSION_LIFE,
    MaxChallenges,      \* bound: challenges issued
    SignInHorizon       \* bound: the last value of the clock

ASSUME SignInAssumption ==
    /\ NoAccount \notin Accounts
    /\ NONCE_LIFE \in Nat \ {0} /\ SESSION_LIFE \in Nat \ {0}
    /\ MaxChallenges \in Nat /\ SignInHorizon \in Nat

VARIABLES
    auth_clock,
    auth_nonces,        \* one row per wallet
    issued,             \* nonces drawn so far: nonce n was the n-th
    signatures,         \* challenges a wallet has signed
    sessions,           \* the rows of the session table
    opened,             \* history: every session that was ever opened
    page,               \* the page's view of who is signed in
    cookie,             \* the challenge the cookie's session came from, 0 if none
    boot,               \* the page load's question whose session the cookie names
    attempt             \* the authenticate calls under way

server_side == <<auth_nonces, issued, sessions, opened>>
sign_in_vars == <<auth_clock, server_side, signatures, page, cookie, boot, attempt>>

NoNonce == [ nonce |-> 0, expires |-> 0, used |-> FALSE ]
NoAttempt == [ stage |-> "Idle", wallet |-> NoAccount, nonce |-> 0, expires |-> 0,
               signer |-> NoAccount ]
Blank == [ wallet |-> NoAccount, provider |-> NoAccount, session |-> FALSE,
           sessionWallet |-> NoAccount, authStatus |-> "disconnected",
           leaving_for |-> NoAccount, leaving_with |-> 0 ]
\* late: the answer shown was of a cookie that had been replaced meanwhile.
Booted == [ stage |-> "Done", wallet |-> NoAccount, sent_with |-> 0, late |-> FALSE ]

SignInInit ==
    /\ auth_clock = 0
    /\ auth_nonces = [w \in Accounts |-> NoNonce]
    /\ issued = 0 /\ signatures = {} /\ sessions = {} /\ opened = {}
    /\ page = Blank /\ cookie = 0 /\ boot = Booted
    /\ attempt = [f \in Attempts |-> NoAttempt]

-----------------------------------------------------------------------------
(* The server.                                                             *)

\* The message names wallet, nonce and expiry, so it is what they are.
challengeMessage(w, nonce, expires) == [ wallet |-> w, nonce |-> nonce, expires |-> expires ]

purgeExpired(rows) == { s \in rows : s.expires >= auth_clock }

Challenge(w) ==
    /\ issued < MaxChallenges
    /\ issued' = issued + 1
    /\ auth_nonces' = [auth_nonces EXCEPT ![w] =
          [ nonce |-> issued + 1, expires |-> auth_clock + NONCE_LIFE, used |-> FALSE ]]
    /\ sessions' = purgeExpired(sessions)
    /\ UNCHANGED opened

\* SLIP: a challenge may be used again.
challenge_valid_reused(m) ==
    LET row == auth_nonces[m.wallet] IN
    /\ row.nonce # 0 /\ row.expires >= auth_clock
    /\ m = challengeMessage(m.wallet, row.nonce, row.expires)

challenge_valid(m) ==
    LET row == auth_nonces[m.wallet] IN
    /\ row.nonce # 0 /\ ~row.used /\ row.expires >= auth_clock
    /\ m = challengeMessage(m.wallet, row.nonce, row.expires)

new_session(m) == [ wallet |-> m.wallet, nonce |-> m.nonce,
                    expires |-> auth_clock + SESSION_LIFE, at |-> auth_clock ]

Verify(m) ==
    LET s == new_session(m) IN
    /\ challenge_valid(m) /\ m \in signatures
    /\ auth_nonces' = [auth_nonces EXCEPT ![m.wallet].used = TRUE]
    /\ sessions' = sessions \union {s}
    /\ opened' = opened \union {s}
    /\ UNCHANGED issued

activeSession(token) == { s \in sessions : s.nonce = token /\ s.expires > auth_clock }
logout(token) == { s \in sessions : s.nonce # token }

-----------------------------------------------------------------------------
(* The page.                                                               *)

busy(f) == attempt[f].stage # "Idle"
ends(f) == attempt' = [attempt EXCEPT ![f] = NoAttempt]

\* Connecting another wallet ends the session first, if the call gets through.
connectWallet(a) ==
    /\ page.leaving_for = NoAccount
    /\ IF page.sessionWallet \in {NoAccount, a}
       THEN page' = [page EXCEPT !.wallet = a, !.provider = a,
               !.authStatus = IF page.session THEN "authenticated" ELSE "connected"]
       ELSE page' = [page EXCEPT !.leaving_for = a, !.leaving_with = cookie]
    /\ UNCHANGED <<auth_clock, server_side, signatures, cookie, boot, attempt>>

\* The call is carried out, or lost: the page goes on alike.
LogoutAnswered(carried_out) ==
    /\ page.leaving_for # NoAccount
    /\ page' = [page EXCEPT !.wallet = page.leaving_for, !.provider = page.leaving_for,
                !.session = FALSE, !.sessionWallet = NoAccount,
                !.authStatus = "connected", !.leaving_for = NoAccount,
                !.leaving_with = 0]
    /\ boot' = [boot EXCEPT !.late = FALSE]
    /\ IF carried_out THEN sessions' = logout(page.leaving_with) /\ cookie' = 0
                      ELSE UNCHANGED <<sessions, cookie>>
    /\ UNCHANGED <<auth_clock, auth_nonces, issued, opened, signatures, attempt>>

\* From the connection just made, from the button, or on demand.
authenticate(f) ==
    /\ ~busy(f)
    /\ page.authStatus # "signing" /\ ~page.session
    /\ page.wallet # NoAccount /\ page.provider # NoAccount
    /\ page' = [page EXCEPT !.authStatus = "signing"]
    /\ attempt' = [attempt EXCEPT ![f] = [NoAttempt EXCEPT !.stage = "Challenge",
                                                           !.wallet = page.wallet]]
    /\ UNCHANGED <<auth_clock, server_side, signatures, cookie, boot>>

ChallengeAnswered(f) ==
    LET w == attempt[f].wallet IN
    /\ attempt[f].stage = "Challenge"
    /\ Challenge(w)
    /\ attempt' = [attempt EXCEPT ![f] = [@ EXCEPT !.stage = "Sign", !.nonce = issued',
                                                   !.expires = auth_clock + NONCE_LIFE]]
    /\ UNCHANGED <<auth_clock, signatures, page, cookie, boot>>

\* It is the provider of this moment that signs.
SignMessage(f) ==
    /\ attempt[f].stage = "Sign"
    /\ attempt' = [attempt EXCEPT ![f].stage = "Verify", ![f].signer = page.provider]
    /\ signatures' = IF page.provider = attempt[f].wallet
                     THEN signatures \union {challengeMessage(attempt[f].wallet,
                                               attempt[f].nonce, attempt[f].expires)}
                     ELSE signatures
    /\ UNCHANGED <<auth_clock, server_side, page, cookie, boot>>

\* SLIP: the session is put down to the wallet connected by now.
signed_in_as_connected(w) == [page EXCEPT !.session = TRUE, !.sessionWallet = page.wallet,
                                          !.authStatus = "authenticated"]

signed_in_as(w) == [page EXCEPT !.session = TRUE, !.sessionWallet = w,
                                !.authStatus = "authenticated"]

VerifyAnswered(f) ==
    LET m == challengeMessage(attempt[f].wallet, attempt[f].nonce, attempt[f].expires) IN
    /\ attempt[f].stage = "Verify" /\ attempt[f].signer = m.wallet
    /\ Verify(m)
    /\ cookie' = m.nonce
    /\ page' = signed_in_as(m.wallet)
    /\ boot' = [boot EXCEPT !.late = FALSE]
    /\ ends(f)
    /\ UNCHANGED <<auth_clock, signatures>>

\* Declined, too slow, refused, lost, or wallet and signature do not agree.
AttemptFails(f) ==
    /\ busy(f)
    /\ page' = [page EXCEPT !.authStatus = "connected"]
    /\ ends(f)
    /\ UNCHANGED <<auth_clock, server_side, signatures, cookie, boot>>

\* A page load asks the server; the answer is what the cookie sent with it names.
PageLoads ==
    /\ \A f \in Attempts : ~busy(f)
    /\ page' = Blank
    /\ \E w \in {NoAccount} \union { s.wallet : s \in activeSession(cookie) } :
          boot' = [ stage |-> "Session", wallet |-> w, sent_with |-> cookie, late |-> FALSE ]
    /\ UNCHANGED <<auth_clock, server_side, signatures, cookie, attempt>>

\* The answer arrives, on a page whose buttons worked meanwhile; or there is none.
restoreSession ==
    /\ boot.stage = "Session"
    /\ IF boot.wallet = NoAccount
       THEN boot' = Booted /\ UNCHANGED page
       ELSE /\ page' = [page EXCEPT !.wallet = boot.wallet, !.session = TRUE,
                                    !.sessionWallet = boot.wallet,
                                    !.authStatus = "authenticated"]
            /\ boot' = [boot EXCEPT !.stage = "Wallet", !.late = (cookie # boot.sent_with)]
    /\ UNCHANGED <<auth_clock, server_side, signatures, cookie, attempt>>

\* The wallet attaches silently - checked or not -, does not, or fails.
SilentReattach(p) ==
    /\ boot.stage = "Wallet"
    /\ page' \in {page, [page EXCEPT !.provider = p]}
    /\ boot' = [Booted EXCEPT !.late = boot.late]
    /\ UNCHANGED <<auth_clock, server_side, signatures, cookie, attempt>>

reattachProvider(a) ==
    /\ page.provider = NoAccount /\ page.sessionWallet # NoAccount
    /\ a = page.sessionWallet
    /\ page' = [page EXCEPT !.provider = a]
    /\ UNCHANGED <<auth_clock, server_side, signatures, cookie, boot, attempt>>

-----------------------------------------------------------------------------
(* Everybody else.                                                         *)

OtherChallenge(w) ==
    /\ Challenge(w)
    /\ UNCHANGED <<auth_clock, signatures, page, cookie, boot, attempt>>

\* An agent with the key of its wallet signs in without a page.
AgentSigns(w) ==
    LET row == auth_nonces[w]
        m == challengeMessage(w, row.nonce, row.expires) IN
    /\ row.nonce # 0 /\ m \notin signatures
    /\ signatures' = signatures \union {m}
    /\ UNCHANGED <<auth_clock, server_side, page, cookie, boot, attempt>>

OtherVerify(m) ==
    /\ Verify(m)
    /\ UNCHANGED <<auth_clock, signatures, page, cookie, boot, attempt>>

SignInTick ==
    /\ auth_clock < SignInHorizon
    /\ auth_clock' = auth_clock + 1
    /\ UNCHANGED <<server_side, signatures, page, cookie, boot, attempt>>

AttemptStep(f) ==
    \/ authenticate(f)
    \/ ChallengeAnswered(f)
    \/ SignMessage(f)
    \/ VerifyAnswered(f)
    \/ AttemptFails(f)

SignInNext ==
    \/ \E f \in Attempts : AttemptStep(f)
    \/ \E a \in Accounts : connectWallet(a) \/ reattachProvider(a)
    \/ \E carried_out \in BOOLEAN : LogoutAnswered(carried_out)
    \/ PageLoads \/ restoreSession
    \/ \E p \in Accounts \union {NoAccount} : SilentReattach(p)
    \/ \E w \in Accounts : OtherChallenge(w) \/ AgentSigns(w)
    \/ \E m \in signatures : OtherVerify(m)
    \/ SignInTick

SignInSpec == SignInInit /\ [][SignInNext]_sign_in_vars

-----------------------------------------------------------------------------
(* /api/auth/verify, used_at: whatever is asked for, replaced, signed and  *)
(* repeated, one challenge opens one session, of the wallet that signed it *)
(* and before it expired.  authenticate awaits three calls: whoever was    *)
(* connected meanwhile, and however two attempts finish, the wallet the    *)
(* page says is signed in is the wallet of the session its cookie names,   *)
(* until that one runs out - save on a page where somebody signed in       *)
(* before restoreSession had its answer, which nothing guards against.     *)
SignInSound ==
    /\ \A s, u \in opened : s.nonce = u.nonce => s = u
    /\ \A s \in opened : \E m \in signatures :
          m.nonce = s.nonce /\ m.wallet = s.wallet /\ m.expires >= s.at
    /\ page.session /\ page.leaving_for = NoAccount /\ ~boot.late =>
          /\ \E s \in opened : s.nonce = cookie /\ s.wallet = page.sessionWallet
          /\ \A s \in opened : s.nonce = cookie /\ s.expires > auth_clock => s \in sessions
=============================================================================
