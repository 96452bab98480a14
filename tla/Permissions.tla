---------------------------- MODULE Permissions ----------------------------
(***************************************************************************)
(* security/perm/permissions.c: the permission bits of a file, three for   *)
(* its owner, three for its group, three for the others.                   *)
(***************************************************************************)
EXTENDS Integers, TLC

CONSTANTS Ids,            \* users and groups; 0 is root
          Modes           \* values of mode

ASSUME PermissionsConstants == 0 \in Ids /\ Ids \subseteq Nat /\ Modes \subseteq 0 .. 511

PERM_READ == 1
PERM_WRITE == 2
PERM_EXEC == 4

VARIABLES perms,          \* file_perms_t
          user,           \* the user_cred_t last checked, its groups as a set
          answer          \* what check_permission said then, of which access

permission_vars == <<perms, user, answer>>

Users == [uid : Ids, groups : SUBSET Ids]

PermissionsInit ==
  /\ perms = [uid |-> 0, gid |-> 0, mode |-> 0]
  /\ user = [uid |-> 0, groups |-> {}]
  /\ answer = <<0, 0>>

\* The answer that was given is of no more use.
set_permission(uid, gid, mode) ==
  /\ perms' = [uid |-> uid, gid |-> gid, mode |-> mode]
  /\ user' = [uid |-> 0, groups |-> {}] /\ answer' = <<0, 0>>

\* mode >> 6, mode >> 3 or mode, and the last three bits of that.
perm(u) ==
  (perms.mode \div (IF u.uid = perms.uid THEN 64
                    ELSE IF perms.gid \in u.groups THEN 8 ELSE 1)) % 8

MutGranted(u, access_type) ==
  \/ u.uid = 0
  \/ access_type = PERM_READ /\ perm(u) % 2 = 1
  \/ access_type = PERM_WRITE /\ (perm(u) \div 2) % 2 = 1
  \/ access_type = PERM_EXEC /\ perm(u) \div 4 = 1

\* The bits of perm, from the lowest: execute, write, read.
Granted(u, access_type) ==
  \/ u.uid = 0
  \/ access_type = PERM_READ /\ perm(u) \div 4 = 1
  \/ access_type = PERM_WRITE /\ (perm(u) \div 2) % 2 = 1
  \/ access_type = PERM_EXEC /\ perm(u) % 2 = 1

check_permission(u, access_type) ==
  /\ user' = u
  /\ answer' = <<access_type, IF Granted(u, access_type) THEN 1 ELSE 0>>
  /\ UNCHANGED perms

PermissionsNext ==
  \/ \E uid, gid \in Ids, mode \in Modes : set_permission(uid, gid, mode)
  \/ \E u \in Users, access_type \in 0 .. 4 : check_permission(u, access_type)
-----------------------------------------------------------------------------
\* The accesses that a mode written rwxrwxrwx allows to a class.
Allowed(class) ==
  LET bit(n) == (perms.mode \div 2 ^ n) % 2 = 1
      low == CASE class = "owner" -> 6 [] class = "group" -> 3 [] class = "others" -> 0
      at == (PERM_READ :> low + 2) @@ (PERM_WRITE :> low + 1) @@ (PERM_EXEC :> low)
  IN  {a \in DOMAIN at : bit(at[a])}

(* check_permission answers for the first class the user is in and for no    *)
(* other: an owner whom the mode denies an access is not granted it as a     *)
(* member of the group.  Although the PERM constants number the accesses the *)
(* other way round than the mode's bits, each is looked up in its own bit;   *)
(* and two accesses asked for at once are granted to root alone.             *)
FirstClassDecides ==
  LET class == IF user.uid = perms.uid THEN "owner"
               ELSE IF perms.gid \in user.groups THEN "group" ELSE "others"
  IN  answer[1] # 0 => (answer[2] = 1 <=> user.uid = 0 \/ answer[1] \in Allowed(class))
=============================================================================
