------------------------------ MODULE BlobFile ------------------------------
(***************************************************************************)
(* A value kept in one file and replaced as a whole                        *)
(* (pkg/raft/src/atomic.rs): the metadata of a raft server and the CURRENT *)
(* file of its state machine.  Each operation is a list of system calls,   *)
(* decided when it begins because nobody else uses the files; the machine  *)
(* may stop between any two of them.                                       *)
(*                                                                         *)
(* The file system (external) keeps a change of a file once that file is   *)
(* synced and a change of the directory once the directory is synced.  Any *)
(* of the others may be lost, in any combination: survivors holds every    *)
(* directory that a stop may leave.                                        *)
(***************************************************************************)
EXTENDS Integers, FiniteSets, SequencesExt

CONSTANTS
  Value,     \* what is stored
  Size,      \* Size[v]: the size of the file that holds v, with its padding
  Sector,    \* DISK_SECTOR_SIZE
  MaxStops   \* bound: stops of the machine

VARIABLES
  disk,       \* names: the inode of each path; contents: what each inode holds
  survivors,  \* the states of the disk that a stop may leave
  todo,       \* the system calls left of the operation
  handle,     \* state: "closed", "busy", "open" or "failed"; what the operation under way
              \* will make of it, and what it stores
  promised,   \* history: the values that a reader may find
  stops       \* history: the number of stops

blob_vars == <<disk, survivors, todo, handle, promised, stops>>

Path == {"path", "tmp", "new"}
NoFile == 0
Inode == 1..(Cardinality(Path) + 2)
Invalid == "invalid"   \* contents whose length or checksum is wrong
Nothing == "nothing"   \* no file at all

Closed == [state |-> "closed", after |-> "closed", result |-> Nothing, in_place |-> FALSE]

There(d, p) == d.names[p] # NoFile
Held(d, p) == d.contents[d.names[p]]
Valid(d, p) == There(d, p) /\ Held(d, p) # Invalid

\* What open returns.
Opens(d) ==
  CASE Valid(d, "path") -> Held(d, "path")
    [] ~Valid(d, "path") /\ Valid(d, "tmp") -> Held(d, "tmp")
    [] OTHER -> IF There(d, "path") \/ There(d, "tmp") THEN Invalid ELSE Nothing

-----------------------------------------------------------------------------
(* System calls *)

Create(p) == [call |-> "create", path |-> p]
Write(p, v) == [call |-> "write", path |-> p, value |-> v]
SetLen(p, v) == [call |-> "set_len", path |-> p, value |-> v]
SyncData(p) == [call |-> "sync_data", path |-> p]
Rename(p, to) == [call |-> "rename", path |-> p, to |-> to]
Unlink(p) == [call |-> "unlink", path |-> p]
SyncDir == [call |-> "sync_dir", path |-> "path"]

\* An inode for a new file.
Unused == Min(Inode \ UNION {Range(d.names) : d \in survivors \cup {disk}})

\* What a call does to the disk d, while i is the inode of its path.  Cutting the file to
\* the size of a value spoils any other.
Effect(c, i, d) ==
  CASE c.call = "create" -> [d EXCEPT !.names[c.path] = i, !.contents[i] = Invalid]
    [] c.call = "write" -> [d EXCEPT !.contents[i] = c.value]
    [] c.call = "set_len" -> [d EXCEPT !.contents[i] = IF @ = c.value THEN @ ELSE Invalid]
    [] c.call = "rename" -> [d EXCEPT !.names[c.to] = i, !.names[c.path] = NoFile]
    [] c.call = "unlink" -> [d EXCEPT !.names[c.path] = NoFile]
    [] OTHER -> d

\* What a call makes of a disk that a stop may leave.
Kept(c, i, d) ==
  CASE c.call = "sync_data" -> {[d EXCEPT !.contents[i] = disk.contents[i]]}
    [] c.call = "sync_dir" -> {[d EXCEPT !.names = disk.names]}
    [] OTHER -> {d, Effect(c, i, d)}

SystemCall ==
  LET c == Head(todo)
      i == IF c.call = "create" THEN Unused ELSE disk.names[c.path]
      rest == Tail(todo)
  IN
  /\ todo # <<>>
  /\ disk' = Effect(c, i, disk)
  /\ survivors' = UNION {Kept(c, i, d) : d \in survivors}
  /\ todo' = rest
  /\ IF rest # <<>> THEN UNCHANGED <<handle, promised>>
     ELSE /\ handle' = [handle EXCEPT !.state = handle.after, !.in_place = FALSE]
          /\ promised' = IF handle.result = Nothing THEN promised ELSE {handle.result}
  /\ UNCHANGED stops

-----------------------------------------------------------------------------
(* Operations *)

\* The calls that make up an operation, what the handle is after it and what it stores.
Begin(calls, after, result, in_place) ==
  /\ todo = <<>> /\ todo' = calls
  /\ handle' = [state |-> IF calls = <<>> THEN after ELSE "busy", after |-> after,
                result |-> result, in_place |-> in_place]
  /\ UNCHANGED <<disk, survivors, stops>>

If(condition, calls) == IF condition THEN calls ELSE <<>>

\* write_simple: the length, the value and the checksum are written one by one.
write_simple(p, v) == <<Write(p, Invalid), Write(p, v)>>

exists == There(disk, "path") \/ There(disk, "tmp")


create_calls(v) ==
  If(There(disk, "new"), <<Unlink("new")>>) \o <<Create("new")>> \o write_simple("new", v)
    \o <<SyncData("new"), Rename("new", "path"), SyncDir>>

create(v) ==
  /\ handle.state = "closed" /\ ~exists
  /\ Begin(create_calls(v), "open", v, FALSE)
  /\ promised' = promised \cup {v}

\* open: the file, or what was put aside while it was being replaced.
open_calls ==
  IF Valid(disk, "path") THEN If(There(disk, "tmp"), <<Unlink("tmp"), SyncDir>>)
  ELSE If(There(disk, "path"), <<Unlink("path")>>) \o <<Rename("tmp", "path"), SyncDir>>

open ==
  /\ handle.state = "closed" /\ exists
  /\ IF Opens(disk) = Invalid THEN Begin(<<>>, "failed", Nothing, FALSE)
     ELSE Begin(open_calls, "open", Opens(disk), FALSE)
  /\ UNCHANGED promised

\* A value that fits in a sector is written over the old one.
store_small(v, old) ==
  If(Size[v] > Size[old], <<SetLen("path", old), SyncData("path")>>)
    \o write_simple("path", v)
    \o If(Size[v] < Size[old], <<SetLen("path", v)>>) \o <<SyncData("path")>>

store_large(v) ==
  <<Rename("path", "tmp"), SyncDir, Create("path")>> \o write_simple("path", v)
    \o <<SyncData("path"), SyncDir, Unlink("tmp")>>

store(v) ==
  /\ handle.state = "open"
  /\ IF Size[v] < Sector THEN Begin(store_small(v, Held(disk, "path")), "open", v, TRUE)
     ELSE Begin(store_large(v), "open", v, FALSE)
  /\ promised' = promised \cup {v}
-----------------------------------------------------------------------------
\* The machine stops and leaves the disk d.
stop(d) ==
  /\ stops < MaxStops /\ stops' = stops + 1
  /\ disk' = d /\ survivors' = {d} /\ promised' = {Opens(d)}
  /\ todo' = <<>> /\ handle' = Closed

BlobInit ==
  /\ disk = [names |-> [p \in Path |-> NoFile], contents |-> [i \in Inode |-> Invalid]]
  /\ survivors = {disk} /\ promised = {Nothing}
  /\ todo = <<>> /\ handle = Closed /\ stops = 0

BlobNext ==
  \/ SystemCall \/ open
  \/ \E v \in Value : create(v) \/ store(v)
  \/ \E d \in survivors : stop(d)

BlobSpec == BlobInit /\ [][BlobNext]_blob_vars

-----------------------------------------------------------------------------
\* A value is being written over the old one.
Overwriting ==
  handle.in_place /\ todo # <<>> /\ ~\E k \in DOMAIN todo : todo[k] = Write("path", Invalid)


=============================================================================
