------------------------------- MODULE Session -------------------------------
(***************************************************************************)
(* One user: what a login gives, how long it lasts, and the account's row,  *)
(* which is disabled in place of being deleted.  The lifetime of a token is *)
(* read from the platform's settings when the token is issued.  A request   *)
(* passes its check on the row first and saves the row later, as read.      *)
(***************************************************************************)
EXTENDS Integers, FiniteSets

CONSTANTS
    AccessLives, RefreshLives,  \* minutes the settings may name
    UserClients,
    MaxTime, MaxUserCalls       \* bounds

ASSUME SessionAssumption ==
    /\ AccessLives \subseteq Nat \ {0} /\ RefreshLives \subseteq Nat \ {0}
    /\ MaxTime \in Nat /\ MaxUserCalls \in Nat

VARIABLES
    now,
    lives,    \* [access, refresh]: the settings' lifetimes, or the defaults
    active,   \* is_active of the user's row
    access,   \* expiry of the access tokens that have not expired
    refresh,  \* expiry of the refresh token the client keeps, 0 before a login
    ends,     \* ghost: when the last login's refresh token was to expire
    userCall, \* of each client: its request
    disabled, \* ghost: how often the account has been disabled
    userCalls \* requests there have been

tokenVars   == <<now, lives, access, refresh, ends>>
accountVars == <<active, userCall, disabled, userCalls>>
sessionVars == <<tokenVars, accountVars>>

NoRequest == [at |-> "none", row |-> FALSE, disabled |-> 0]

SessionInit ==
    /\ now = 0 /\ lives \in [access : AccessLives, refresh : RefreshLives]
    /\ active = TRUE /\ access = {} /\ refresh = 0 /\ ends = 0
    /\ userCall = [c \in UserClients |-> NoRequest] /\ disabled = 0 /\ userCalls = 0

Pass ==
    /\ now < MaxTime /\ now' = now + 1
    /\ access' = {t \in access : t > now + 1}
    /\ UNCHANGED <<lives, refresh, ends, accountVars>>

\* Tokens that have been issued keep their lives.
SetLives(l) ==
    /\ lives' = l
    /\ UNCHANGED <<now, access, refresh, ends, accountVars>>

TokenLogin ==
    /\ active
    /\ access' = access \cup {now + lives.access}
    /\ refresh' = now + lives.refresh /\ ends' = refresh'
    /\ UNCHANGED <<now, lives, accountVars>>

(* Slip: with every access token comes another refresh token.               *)
RefreshRotated ==
    /\ now < refresh
    /\ access' = access \cup {now + lives.access}
    /\ refresh' = now + lives.refresh
    /\ UNCHANGED <<now, lives, ends, accountVars>>

(* The account is not looked at: a disabled user gets tokens nobody takes.  *)
RefreshAccess ==
    /\ now < refresh
    /\ access' = access \cup {now + lives.access}
    /\ UNCHANGED <<now, lives, refresh, ends, accountVars>>

-----------------------------------------------------------------------------
Asks(c, at) ==
    /\ userCall[c].at = "none" /\ userCalls < MaxUserCalls /\ userCalls' = userCalls + 1
    /\ userCall' = [userCall EXCEPT ![c] = [at |-> at, row |-> active, disabled |-> disabled]]

(* Slip: the account is not looked at when a token is good.                 *)
TokenGood == access # {}

Authenticated == access # {} /\ active

(* The user edits the profile: the row is read again, what the page sent is *)
(* put into it, is_active too if the page has it, and all of it is saved.   *)
ProfileAsk(c) ==
    /\ Authenticated
    /\ Asks(c, "profile")
    /\ UNCHANGED <<tokenVars, active, disabled>>

ProfileRead(c, sent) ==
    /\ userCall[c].at = "profile"
    /\ userCall' = [userCall EXCEPT ![c].at = "save", ![c].row = active \/ sent]
    /\ UNCHANGED <<tokenVars, active, disabled, userCalls>>

(* Somebody edits or disables the user: a disabled one is not found.        *)
UserRead(c, purpose) ==
    /\ active /\ purpose \in {"save", "disable"}
    /\ Asks(c, purpose)
    /\ UNCHANGED <<tokenVars, active, disabled>>

UserSave(c) ==
    /\ userCall[c].at = "save"
    /\ active' = userCall[c].row
    /\ disabled' = IF active /\ ~active' THEN disabled + 1 ELSE disabled
    /\ userCall' = [userCall EXCEPT ![c] = NoRequest]
    /\ UNCHANGED <<tokenVars, userCalls>>

UserDisable(c) ==
    /\ userCall[c].at = "disable"
    /\ active' = FALSE /\ disabled' = disabled + 1
    /\ userCall' = [userCall EXCEPT ![c] = NoRequest]
    /\ UNCHANGED <<tokenVars, userCalls>>

SessionNext ==
    \/ Pass \/ TokenLogin \/ RefreshAccess
    \/ \E l \in [access : AccessLives, refresh : RefreshLives] : SetLives(l)
    \/ \E c \in UserClients :
         \/ ProfileAsk(c) \/ UserSave(c) \/ UserDisable(c)
         \/ \E sent \in BOOLEAN : ProfileRead(c, sent)
         \/ \E purpose \in {"save", "disable"} : UserRead(c, purpose)

SessionSpec == SessionInit /\ [][SessionNext]_sessionVars

-----------------------------------------------------------------------------
(* Whatever is refreshed and however the settings change, a login is over   *)
(* when its refresh token was to expire, but for the last access token.     *)
SessionEnds ==
    \A t \in access : \E l \in AccessLives : t <= ends + l

(* A disabled account becomes active again only by the save of a request    *)
(* that had passed its check before: no later one can undo the disabling,   *)
(* whether an operator disabled it or a stale save of another request.      *)
StaysDisabled ==
    [][~active /\ active' => \E c \in UserClients : userCall[c].at = "save" /\ userCall'[c] = NoRequest
                                                   /\ userCall[c].disabled < disabled]_sessionVars
=============================================================================
