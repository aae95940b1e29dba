------------------------------- MODULE DiskIO -------------------------------
(***************************************************************************)
(* write_json of cache/disk_io.cpp on one path, system call by system      *)
(* call.  Every writer of the path uses the same sibling name, so two      *)
(* writers may hold the same file open: what a name shows is kept per file *)
(* (inode), apart from the names.                                          *)
(***************************************************************************)
EXTENDS Naturals

CONSTANT Inodes   \* files that may exist at one time: two named, one per writer unnamed

NoFile  == 0
ASSUME InodesAssumption ==
    /\ Inodes \subseteq Nat \ {NoFile}
    /\ \A i, j, k \in Inodes \cup {NoFile} : Inodes \ {i, j, k} # {}

Empty == [kind |-> "empty"]   \* created or truncated, nothing written
Torn  == [kind |-> "torn"]    \* bytes of two versions

(* content per inode, and the inodes path and path.tmp name. *)
EmptyDir == [content |-> [i \in Inodes |-> Empty], path |-> NoFile, tmp |-> NoFile]

Missing == [kind |-> "missing"]
ReadFile(fs) == IF fs.path = NoFile THEN Missing ELSE fs.content[fs.path]

(* Mistake checked for: the file itself is opened, not a sibling. *)
FileItself(fs, open) ==
    IF fs.path # NoFile THEN fs.path ELSE CHOOSE i \in Inodes \ open : TRUE

(* The file an ofstream on path.tmp opens: the one there, or a new one. *)
TempFile(fs, open) ==
    IF fs.tmp # NoFile THEN fs.tmp
    ELSE CHOOSE i \in Inodes \ (open \cup {fs.path}) : TRUE

(* std::ios::trunc *)
OpenTemp(fs, open) ==
    LET i == TempFile(fs, open)
    IN  [fs EXCEPT !.tmp = i, !.content[i] = Empty]

(* Both writers write from offset 0: json hides what it covers of the other *)
(* text; two different texts of one length leave a mixture.                 *)
WriteTo(fs, i, json, covers) ==
    [fs EXCEPT !.content[i] = IF @ \in {Empty, json} \/ covers THEN json ELSE Torn]

CanPublish(fs) == fs.tmp # NoFile
PublishTemp(fs) == [fs EXCEPT !.path = fs.tmp, !.tmp = NoFile]

RemoveTemp(fs) == [fs EXCEPT !.tmp = NoFile]

=============================================================================
