-------------------------- MODULE MediaDistribution --------------------------
(***************************************************************************)
(* What the media transfer between the pages of a room promises: a page     *)
(* only ever holds parts of the files that their owners have imported, each *)
(* at the place where it is in the file.  Parts may be lost, never changed. *)
(***************************************************************************)
CONSTANT Pages

VARIABLES
  files,  \* the parts of the imported files: resource, place and bytes
  held    \* what each page has received

Init == files = {} /\ held = [p \in Pages |-> {}]

Import == files \subseteq files' /\ UNCHANGED held

(* p loses some of what it holds, or receives parts of files, or both. *)
Change(p) ==
  /\ \E new \in SUBSET (held[p] \cup files) : held' = [held EXCEPT ![p] = new]
  /\ UNCHANGED files

Next == Import \/ \E p \in Pages : Change(p)

Spec == Init /\ [][Next]_<<files, held>>
=============================================================================
