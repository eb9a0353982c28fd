------------------------------ MODULE Accounts -------------------------------
(***************************************************************************)
(* Accounts, their groups and flags: logins through the identity provider, *)
(* which rewrite both from the roles in the claims                         *)
(* (src/project/oidc.py), the signals that add new users to a default      *)
(* group and configure its permissions (src/project/signals.py), and an    *)
(* administrator who works on the same rows.                               *)
(*                                                                         *)
(* A login matches an account, sets its groups and saves the row it read:  *)
(* three steps, with whatever others do in between.                        *)
(***************************************************************************)
EXTENDS Integers, FiniteSets

CONSTANTS
  People,         \* who logs in through the provider
  Usernames,      \* names there may be, with their spelling
  Folded,         \* each name in lower case
  Roles, GroupMap,      \* OIDC_GROUP_MAP: the groups of each role
  StaffRoles, SuperuserRoles,
  MaxAccounts, MaxLogins, MaxAdmin    \* bounds

Registered == "Registered User"
Groups == (UNION {GroupMap[r] : r \in Roles}) \cup {Registered, "Agent"}

ASSUME AccountsAssumption ==
  /\ Folded \in [Usernames -> Usernames] /\ GroupMap \in [Roles -> SUBSET Groups]
  /\ {MaxAccounts, MaxLogins, MaxAdmin} \subseteq Nat
  /\ "nobody" \notin People    \* whose the accounts are that the administrator adds

VARIABLES
  accounts,    \* id, username, email, staff, superuser, active; the email stands
               \* for the person whose it is
  groups,      \* the groups that exist
  member,      \* of each account: its groups
  permissions, \* of each group: "none", "default" or "edited"
  migrated,    \* do the permissions exist that the default groups get
  realm,       \* what the provider tells of each person: name and roles
  login,       \* the login of each person: what it is at, claims, and its row
  synced,      \* history: of each account, the roles of the last login if nothing
               \* else has written to it since that login began
  disturbed,   \* history: people in whose login somebody else wrote to the account
  made, logins, admin   \* history: accounts, logins and changes so far

accountVars == <<accounts, groups, member, permissions, migrated, realm, login, synced, disturbed,
                 made, logins, admin>>

NoLogin == [at |-> "none"]
Ids == 1..MaxAccounts

AccountsInit ==
  /\ accounts = {} /\ groups = Groups \ {Registered}
  /\ member = [i \in Ids |-> {}]
  /\ permissions = [g \in Groups |-> "none"]
  /\ migrated = FALSE
  /\ realm \in [People -> [name : Usernames, roles : {{}}]]
  /\ login = [p \in People |-> NoLogin]
  /\ synced = [i \in Ids |-> {}]
  /\ disturbed = {} /\ made = 0 /\ logins = 0 /\ admin = 0

\* Somebody writes to account i: other logins that work on it are disturbed.
Wrote(i, p) ==
  disturbed' = disturbed \cup {q \in People \ {p} : login[q].at \notin {"none", "create"} /\ login[q].row.id = i}

-----------------------------------------------------------------------------
\* The default groups.

\* _set_group_permissions, for a set of groups: without the permissions a group
\* is made, or left as it is.
Configured(names) == [g \in Groups |-> IF g \in names /\ migrated' THEN "default" ELSE permissions[g]]

\* post_migrate
Migrate ==
  /\ admin < MaxAdmin /\ admin' = admin + 1
  /\ migrated' = TRUE
  /\ groups' = groups \cup {Registered, "Agent"}
  /\ permissions' = Configured({Registered, "Agent"})
  /\ UNCHANGED <<accounts, member, realm, login, synced, disturbed, made, logins>>

\* add_user_to_registered_group, which is called when a row has been inserted.
Registers(i) ==
  /\ member' = [member EXCEPT ![i] = {Registered}]
  /\ migrated' = migrated
  /\ groups' = groups \cup {Registered, "Agent"}
  /\ permissions' = IF Registered \in groups THEN permissions ELSE Configured({Registered, "Agent"})

NewAccount(name, email) ==
  /\ made < MaxAccounts /\ made' = made + 1
  /\ accounts' = accounts \cup {[id |-> made', username |-> name, email |-> email, staff |-> FALSE,
                                 superuser |-> FALSE, active |-> TRUE]}
  /\ Registers(made')

-----------------------------------------------------------------------------
\* Logins.

\* filter_users_by_claims: by name in any case, otherwise by email.
Matching(claims, p) ==
  LET byName == {a \in accounts : Folded[a.username] = Folded[claims.name]}
  IN IF byName # {} THEN byName ELSE {a \in accounts : a.email = p}

\* No match is a first login, several are refused.
Match(p) ==
  /\ login[p] = NoLogin /\ logins < MaxLogins /\ logins' = logins + 1
  /\ LET found == Matching(realm[p], p)
         begun == IF found = {} THEN [at |-> "create", claims |-> realm[p]]
                  ELSE [at |-> "groups", claims |-> realm[p], row |-> CHOOSE a \in found : TRUE]
     IN login' = IF Cardinality(found) > 1 THEN login ELSE [login EXCEPT ![p] = begun]
  /\ disturbed' = disturbed \ {p}
  /\ UNCHANGED <<accounts, groups, member, permissions, migrated, realm, synced, made, admin>>

\* create_user; the name may have been taken meanwhile.
CreateAccount(p) ==
  /\ login[p].at = "create"
  /\ LET name == login[p].claims.name
     IN IF \E a \in accounts : a.username = name
        THEN /\ login' = [login EXCEPT ![p] = NoLogin]
             /\ UNCHANGED <<accounts, groups, member, permissions, migrated, made>>
        ELSE /\ NewAccount(name, p)
             /\ login' = [login EXCEPT ![p] = [at |-> "groups", claims |-> @.claims,
                                               row |-> CHOOSE a \in accounts' : a.id = made']]
  /\ UNCHANGED <<realm, synced, disturbed, logins, admin>>

Mapped(roles) == UNION {GroupMap[r] : r \in roles}
Exists(i) == \E a \in accounts : a.id = i

\* Slip: the groups are added to those there are.
GroupsAfter_Add(i, roles) == member[i] \cup (Mapped(roles) \cap groups)
\* groups.set
GroupsAfter(i, roles) == Mapped(roles) \cap groups

\* sync_user, up to groups.set, which fails when the account has gone and there
\* is a group to add.
SetGroups(p) ==
  /\ login[p].at = "groups"
  /\ LET i == login[p].row.id
         after == GroupsAfter(i, login[p].claims.roles)
     IN /\ member' = [member EXCEPT ![i] = IF Exists(i) THEN after ELSE @]
        /\ login' = [login EXCEPT ![p] = IF Exists(i) \/ after = {} THEN [@ EXCEPT !.at = "save"] ELSE NoLogin]
        /\ synced' = [synced EXCEPT ![i] = {}]
        /\ Wrote(i, p)
  /\ UNCHANGED <<accounts, groups, permissions, migrated, realm, made, logins, admin>>

\* The rest of it: save() writes every field of the row that was read.  A row
\* that has gone is inserted again, unless its name has been taken, and counts
\* as a new account.
SaveAccount(p) ==
  /\ login[p].at = "save"
  /\ LET row == login[p].row
         roles == login[p].claims.roles
         super == roles \cap SuperuserRoles # {}
     IN IF \E a \in accounts : a.id # row.id /\ a.username = row.username
        THEN UNCHANGED <<accounts, groups, member, permissions, migrated, synced, disturbed>>
        ELSE /\ accounts' = {a \in accounts : a.id # row.id} \cup
                  {[row EXCEPT !.superuser = super, !.staff = super \/ roles \cap StaffRoles # {}, !.email = p]}
             /\ IF Exists(row.id) THEN UNCHANGED <<groups, member, permissions, migrated>>
                ELSE Registers(row.id)
             /\ Wrote(row.id, p)
             /\ synced' = [synced EXCEPT ![row.id] = IF p \in disturbed THEN {} ELSE {roles}]
  /\ login' = [login EXCEPT ![p] = NoLogin]
  /\ UNCHANGED <<realm, made, logins, admin>>

-----------------------------------------------------------------------------
\* The provider and the administrator.

RealmChanges(p) ==
  /\ admin < MaxAdmin /\ admin' = admin + 1
  /\ \/ \E R \in SUBSET Roles : realm' = [realm EXCEPT ![p].roles = R]
     \/ \E n \in Usernames : realm' = [realm EXCEPT ![p].name = n]
  /\ UNCHANGED <<accounts, groups, member, permissions, migrated, login, synced, disturbed, made, logins>>

AddAccount(name) ==
  /\ admin < MaxAdmin /\ admin' = admin + 1
  /\ ~ \E a \in accounts : a.username = name
  /\ NewAccount(name, "nobody")
  /\ UNCHANGED <<realm, login, synced, disturbed, logins>>

EditAccount(a) ==
  /\ admin < MaxAdmin /\ admin' = admin + 1
  /\ \/ accounts' = (accounts \ {a}) \cup {[a EXCEPT !.active = ~@, !.staff = FALSE, !.superuser = FALSE]}
        /\ UNCHANGED member
     \/ (\E g \in groups : member' = [member EXCEPT ![a.id] = @ \cup {g}]) /\ UNCHANGED accounts
     \/ accounts' = accounts \ {a} /\ member' = [member EXCEPT ![a.id] = {}]
  /\ synced' = [synced EXCEPT ![a.id] = {}]
  /\ Wrote(a.id, "nobody")
  /\ UNCHANGED <<groups, permissions, migrated, realm, login, made, logins>>

EditGroup(g) ==
  /\ admin < MaxAdmin /\ admin' = admin + 1
  /\ g \in groups /\ permissions' = [permissions EXCEPT ![g] = "edited"]
  /\ UNCHANGED <<accounts, groups, member, migrated, realm, login, synced, disturbed, made, logins>>

AccountsNext ==
  \/ \E p \in People : Match(p) \/ CreateAccount(p) \/ SetGroups(p) \/ SaveAccount(p) \/ RealmChanges(p)
  \/ \E n \in Usernames : AddAccount(n)
  \/ \E a \in accounts : EditAccount(a)
  \/ (\E g \in Groups : EditGroup(g)) \/ Migrate

AccountsSpec == AccountsInit /\ [][AccountsNext]_accountVars

-----------------------------------------------------------------------------

\* After a login nobody interfered with, the account has the groups and flags
\* its roles map to and no others, neither the default group a new account is
\* given nor what an earlier login or an administrator had given it; also when
\* two people's claims lead to one account.
ProviderDecides ==
  \A a \in accounts : \A roles \in synced[a.id] :
    /\ member[a.id] = Mapped(roles)
    /\ a.superuser = (roles \cap SuperuserRoles # {})
    /\ a.staff = (roles \cap (StaffRoles \cup SuperuserRoles) # {})
=============================================================================
