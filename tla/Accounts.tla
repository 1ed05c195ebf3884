------------------------------ MODULE Accounts ------------------------------
(***************************************************************************)
(* Permanent host accounts: registration, login sessions and ownership of  *)
(* the game (db/services, db/repositories, http/cookies.ts).  A session    *)
(* token is a number, 0 standing for no cookie; the raw token and its      *)
(* stored hash are one thing here, and e-mail normalisation and password   *)
(* hashing are left out: an account is its user, and a password is right   *)
(* or wrong.                                                               *)
(***************************************************************************)
EXTENDS Naturals, Sequences, FiniteSets

CONSTANTS
    User,
    NoUser,
    MaxLogins   \* bound: sessions ever issued

ASSUME AccountsAssumption == NoUser \notin User /\ MaxLogins \in Nat

VARIABLES
    accounts,   \* rows of User
    logins,     \* Session rows: the user of each token issued, NoUser once gone
    grants,     \* users with a GameOwnership row for the hackers game
    game        \* the Game row: "missing", "inactive" or "active"

accountVars == <<accounts, logins, grants, game>>

AccountsInit ==
    /\ accounts = {}
    /\ logins = <<>>
    /\ grants = {}
    /\ game \in {"missing", "inactive", "active"}

\* issueSession
IssueSession(u) ==
    /\ Len(logins) < MaxLogins
    /\ logins' = Append(logins, u)
    /\ UNCHANGED <<accounts, grants, game>>

\* register: the unique constraint on e-mail decides, not a check beforehand.  The new
\* account's session is a second write, as it is the only one of a login.
Register(u) ==
    /\ u \notin accounts
    /\ accounts' = accounts \cup {u}
    /\ UNCHANGED <<logins, grants, game>>

Without(token) == [i \in DOMAIN logins |-> IF i = token THEN NoUser ELSE logins[i]]

Logout(token) ==
    /\ logins' = Without(token)
    /\ UNCHANGED <<accounts, grants, game>>

\* expiresAt passes.
LoginExpires ==
    /\ \E i \in DOMAIN logins : logins[i] # NoUser /\ logins' = Without(i)
    /\ UNCHANGED <<accounts, grants, game>>

\* requireSession: the user of a valid session, or NoUser where the code
\* throws UNAUTHENTICATED.
SessionUser(token) == IF token = 0 THEN NoUser ELSE logins[token]

\* For the mutants: ownership is not asked for.
AnyActiveGame(u) ==
    CASE game = "missing" -> "GAME_NOT_FOUND"
      [] game = "inactive" -> "GAME_NOT_ACTIVE"
      [] OTHER -> "ok"

\* requireOwnedActiveGame, with its three refusals in their order.
OwnedGame(u) ==
    CASE game = "missing" -> "GAME_NOT_FOUND"
      [] game = "inactive" -> "GAME_NOT_ACTIVE"
      [] u \notin grants -> "GAME_NOT_OWNED"
      [] OTHER -> "ok"

\* grantOwnership, run from the command line only; nothing revokes.
Grant ==
    /\ game # "missing"
    /\ \E u \in accounts \ grants : grants' = grants \cup {u}
    /\ UNCHANGED <<accounts, logins, game>>
=============================================================================
