------------------------------- MODULE Access -------------------------------
(***************************************************************************)
(* Roles with menus and permissions and one user who holds some of them:   *)
(* what the user is shown, and what a view allows.                         *)
(***************************************************************************)
EXTENDS Integers, FiniteSets

CONSTANTS
    Menus, Roles,
    Perms,       \* methods of permissions
    AdminRole,   \* the role named 管理员
    PermsMap,    \* of a view: pairs of a method key and a permission
    Requests,    \* records of a method, its key with the view's action, and
                 \* the key of the action under any method
    MaxChanges   \* bound: changes in all

ASSUME AccessAssumption == MaxChanges \in Nat /\ 0 \notin Menus \cup Roles /\ IsFiniteSet(Roles)

VARIABLES
    parent,   \* of each menu: another menu, or 0
    roles,    \* the roles there are
    default,  \* the one with the default name, or 0
    menus,    \* of each role
    perms,    \* of each role
    holds,    \* roles of the user
    super,    \* is the user a superuser?
    changes

accessVars == <<parent, roles, default, menus, perms, holds, super, changes>>

(* m, its parent, and so on: what every set has that has m and the parents  *)
(* of its menus.                                                            *)
Ancestors(m) ==
    {k \in Menus : \A S \in SUBSET Menus :
        m \in S /\ (\A x \in S : parent[x] \in S \cup {0}) => k \in S}

Rooted(m) == \E k \in Ancestors(m) : parent[k] = 0

AccessInit ==
    /\ parent \in [Menus -> Menus \cup {0}] /\ \A m \in Menus : Rooted(m)
    /\ roles = Roles /\ default \in Roles \cup {0}
    /\ menus = [r \in Roles |-> {}] /\ perms = [r \in Roles |-> {}]
    /\ holds = {} /\ super = FALSE /\ changes = 0

Change == changes < MaxChanges /\ changes' = changes + 1

-----------------------------------------------------------------------------
(* A menu can be given any parent, its own child included.                  *)
MenuUpdate(m, p) ==
    /\ Change /\ parent' = [parent EXCEPT ![m] = p]
    /\ UNCHANGED <<roles, default, menus, perms, holds, super>>

(* A role is created or edited; its name is unique.                         *)
RoleSave(r, ms, ps) ==
    /\ Change
    /\ roles' = roles \cup {r}
    /\ menus' = [menus EXCEPT ![r] = ms] /\ perms' = [perms EXCEPT ![r] = ps]
    /\ default' \in IF default \in {0, r} THEN {0, r} ELSE {default}
    /\ UNCHANGED <<parent, holds, super>>

(* The role with the default name stays, without a word.                    *)
RoleDestroy(r) ==
    /\ Change /\ r \in roles
    /\ roles' = IF r = default THEN roles ELSE roles \ {r}
    /\ holds' = holds \cap roles'
    /\ UNCHANGED <<parent, default, menus, perms, super>>

UserUpdate(rs, s) ==
    /\ Change /\ rs \subseteq roles
    /\ holds' = rs /\ super' = s
    /\ UNCHANGED <<parent, roles, default, menus, perms>>

Login ==
    /\ Change
    /\ holds' = holds \cup ({default} \ {0})
    /\ UNCHANGED <<parent, roles, default, menus, perms, super>>

AccessNext ==
    \/ \E m \in Menus, p \in Menus \cup {0} : MenuUpdate(m, p)
    \/ \E r \in Roles : RoleDestroy(r) \/ \E ms \in SUBSET Menus, ps \in SUBSET Perms : RoleSave(r, ms, ps)
    \/ \E rs \in SUBSET Roles, s \in BOOLEAN : UserUpdate(rs, s)
    \/ Login

AccessSpec == AccessInit /\ [][AccessNext]_accessVars

-----------------------------------------------------------------------------
(* get_routers: a superuser, or who holds the permission admin, is shown    *)
(* all menus as a tree; others the tree of the menus of all their roles,    *)
(* each once; or, as soon as one misses its parent, the menus role by role  *)
(* as they are, and those that had been hung on their parents by then hang  *)
(* there too.  top is how often a menu stands at the top.                   *)
PermsOf(held) == UNION {perms[r] : r \in held}

SeesAll == super \/ "admin" \in PermsOf(holds)
Granted == UNION {menus[r] : r \in holds}
Missing == \E m \in Granted : parent[m] \notin Granted \cup {0}

Tree(ms) == [top   |-> [m \in Menus |-> IF m \in ms /\ parent[m] = 0 THEN 1 ELSE 0],
             under |-> [m \in Menus |-> {k \in ms : parent[k] = m}]]

(* Any of them may come before the first that misses its parent.            *)
MayHang == SUBSET {m \in Granted : parent[m] \in Granted}

(* Slip: without its parent a menu is left out.                             *)
RoutersPruned(hung) == IF SeesAll THEN Tree(Menus) ELSE Tree(Granted)

Routers(hung) ==
    IF SeesAll THEN Tree(Menus)
    ELSE IF Missing
    THEN [top   |-> [m \in Menus |-> Cardinality({r \in holds : m \in menus[r]})],
          under |-> [m \in Menus |-> {k \in hung : parent[k] = m}]]
    ELSE Tree(Granted)

(* What can be reached from the top.                                        *)
Reached(shown) ==
    {m \in Menus : \A S \in SUBSET Menus :
        /\ \A k \in Menus : shown.top[k] > 0 => k \in S
        /\ \A k \in S : shown.under[k] \subseteq S
        => m \in S}

(* menu_sort goes down from the top; it comes to no end, and the request    *)
(* fails, if menus that it comes to hang on each other.                     *)
Endless(shown) ==
    \E S \in (SUBSET Reached(shown)) \ {{}} : \A k \in S : \E m \in S : k \in shown.under[m]

(* _has_permission, past the white list and the superuser: the permissions  *)
(* of all roles in one list, and the first entry of perms_map that fits.    *)
Fits(entry, held, request) ==
    \/ AdminRole \in held /\ entry.key = "*" /\ entry.perm = "admin"
    \/ entry.perm \in PermsOf(held)
         /\ entry.key \in {"*", request.method, request.custom, request.any}

Allows(held, request) ==
    /\ AdminRole \in held \/ PermsOf(held) # {}
    /\ \E entry \in PermsMap : Fits(entry, held, request)

-----------------------------------------------------------------------------
(* Roles add up.  However the menus' tree and the roles are edited, a user  *)
(* is shown every menu of the user's roles and no other, except that those  *)
(* of a cycle are shown only when a parent is missing somewhere, and then   *)
(* the request may fail instead; it fails in no other case, and whoever     *)
(* sees all is shown what the tree of all menus holds.  A view allows a     *)
(* request if one of the roles by itself would let it: no role takes away.  *)
RolesAdd ==
    /\ \A hung \in MayHang :
         /\ Reached(Routers(hung)) =
              IF SeesAll THEN {m \in Menus : Rooted(m)} ELSE {m \in Granted : Missing \/ Rooted(m)}
         /\ Endless(Routers(hung)) => ~SeesAll /\ Missing /\ \E m \in Granted : ~Rooted(m)
    /\ \A q \in Requests : Allows(holds, q) <=> \E r \in holds : Allows({r}, q)
=============================================================================
