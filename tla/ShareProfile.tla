----------------------------- MODULE ShareProfile -----------------------------
(***************************************************************************)
(* The share_files profile of a bundle: the pure part of                   *)
(* SandboxManagerShare.                                                    *)
(*                                                                         *)
(* A profile declares scopes, paths inside the data directory of the       *)
(* bundle with the permission others may get there, and at most one        *)
(* directory shared with the other system. A path is the sequence of the   *)
(* pieces between its slashes: "/base/a" is <<"", "base", "a">>, and the   *)
(* empty piece at its end is a trailing slash.                             *)
(***************************************************************************)
EXTENDS Naturals, Sequences, SequencesExt

MinPartsFormat == 2
MaxPartsFormat == 10
LongPiece == "long"      \* stands for a piece of more than 32 characters

FullPathStart == <<"", "storage", "Users", "currentUser", "appdata">>

PermissionToMode(permission) ==
  IF permission = "r" THEN {"r"} ELSE IF permission = "r+w" THEN {"r", "w"} ELSE {}

IsValidElNumber(piece) == piece \in {"el1", "el2", "el3", "el4", "el5"}

(* Absolute, and equal to its lexical normal form.                           *)
IsPathSecure(path) ==
  /\ Len(path) >= 2
  /\ path[1] = ""
  /\ \A i \in 2..Len(path) : path[i] \notin {"", ".", ".."}

(* The directory a profile path means in the data directory of a bundle, or  *)
(* the empty path. "/elX/y/..." names the level and the kind, "/base/..." is *)
(* short for the kind "base" of the default level.                           *)
PathComposeSwapped(path, name) ==
  IF ~IsPathSecure(path) \/ name = "" \/ Len(path) - 1 \notin MinPartsFormat..MaxPartsFormat
    THEN <<>>
  ELSE IF IsValidElNumber(path[2])
    THEN FullPathStart \o <<path[2], path[3], name>> \o SubSeq(path, 4, Len(path))
  ELSE IF path[2] = "base"
    THEN FullPathStart \o <<"el2", "base", path[3], name>> \o SubSeq(path, 4, Len(path))
  ELSE <<>>

PathCompose(path, name) ==
  IF ~IsPathSecure(path) \/ name = "" \/ Len(path) - 1 \notin MinPartsFormat..MaxPartsFormat
    THEN <<>>
  ELSE IF IsValidElNumber(path[2])
    THEN FullPathStart \o <<path[2], path[3], name>> \o SubSeq(path, 4, Len(path))
  ELSE IF path[2] = "base"
    THEN FullPathStart \o <<"el2", "base", name, path[3]>> \o SubSeq(path, 4, Len(path))
  ELSE <<>>

NormalizeBasePath(path) ==
  IF Len(path) >= 3 /\ path[1] = "" /\ path[2] = "base"
  THEN <<"", "el2">> \o Tail(path)
  ELSE path

(* A sub path is empty, or short enough and secure.                          *)
ValidateSharingOSSubPath(sub) ==
  sub # <<>> => LongPiece \notin ToSet(sub) /\ IsPathSecure(sub)

(* The first scope that means the shared path decides. A scope is malformed, *)
(* or has a path and a permission, which may be malformed too.               *)
ValidateSharingOSPath(scopes, path, permission) ==
  \E i \in DOMAIN scopes : NormalizeBasePath(scopes[i].path) = NormalizeBasePath(path)

ValidateSharingOSPathAndPermission(scopes, path, permission) ==
  LET Means(scope) == NormalizeBasePath(scope.path) = NormalizeBasePath(path)
      first == SelectInSeq(scopes, Means)
  IN  /\ first # 0
      /\ \/ scopes[first].permission = permission
         \/ scopes[first].permission = "r+w" /\ permission = "r"

(* The row for the shared directory of a profile: "skip" without one,        *)
(* "invalid" if it is not within the scopes, else its path and mode.         *)
NoRow == [path |-> <<>>, mode |-> {}]
NoSharing == [none |-> TRUE]

ProcessShareFileInfo(profile, bundle) ==
  LET s == profile.sharing
      composed == PathCompose(s.path, bundle)
  IN  IF s = NoSharing THEN [ret |-> "skip", row |-> NoRow]
      ELSE IF \/ ~ValidateSharingOSSubPath(s.sub)
              \/ ~ValidateSharingOSPathAndPermission(profile.scopes, s.path, s.permission)
              \/ composed = <<>>
        THEN [ret |-> "invalid", row |-> NoRow]
      ELSE [ret |-> "ok",
            row |-> [path |-> composed \o (IF s.sub = <<>> THEN <<>> ELSE Tail(s.sub)),
                     mode |-> PermissionToMode(s.permission)]]

(* A scope of the profile means a directory that a row lies in, with no      *)
(* fewer rights than the row gives.                                          *)
DeclaredIn(profile, bundle, row) ==
  \E i \in DOMAIN profile.scopes :
    /\ PathCompose(profile.scopes[i].path, bundle) # <<>>
    /\ IsPrefix(PathCompose(profile.scopes[i].path, bundle), row.path)
    /\ row.mode \subseteq PermissionToMode(profile.scopes[i].permission)

(* What a profile shares is declared in it.  A path of the largest number of *)
(* parts is left out: its long form is not a path PathCompose takes.         *)
SharingIsDeclared(profile, bundle) ==
  LET result == ProcessShareFileInfo(profile, bundle)
  IN  result.ret = "ok" /\ Len(profile.sharing.path) - 1 < MaxPartsFormat =>
        DeclaredIn(profile, bundle, result.row)

(* FindPermission on what is loaded for a bundle and user, a function from   *)
(* paths to modes, empty if there is none: in the order of the map a         *)
(* directory comes before what is below it, so the outermost declared        *)
(* directory decides.                                                        *)
FindPermission(entries, path) ==
  LET above == {p \in DOMAIN entries : IsPrefix(p, path)}
      outermost == CHOOSE p \in above : \A q \in above : Len(p) <= Len(q)
  IN  IF DOMAIN entries = {} THEN [is |-> "bundle_unset", mode |-> {}]
      ELSE IF above = {} THEN [is |-> "path_unset", mode |-> {}]
      ELSE [is |-> "declared", mode |-> entries[outermost]]

(* CheckShareMode: a bundle that is not loaded is not controlled.            *)
CheckShareMode(permission, mode) ==
  \/ permission.is = "bundle_unset"
  \/ permission.is = "declared" /\ mode \subseteq permission.mode
=============================================================================
