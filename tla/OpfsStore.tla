----------------------------- MODULE OpfsStore ------------------------------
(***************************************************************************)
(* The model store of the web platform (dist/esm/storage/opfs.store.js and *)
(* manifest.js): model files in OPFS and a manifest of them, used by the   *)
(* page, the worker and other tabs without any lock of their own.          *)
(*                                                                         *)
(* A call is suspended wherever it awaits; the manifest is read as a whole,*)
(* changed in memory and written as a whole.  A tab that is closed, or a   *)
(* worker that is terminated, takes its calls with it.                     *)
(***************************************************************************)
EXTENDS Naturals, Sequences

CONSTANTS
  Ids,          (* Model ids.                                              *)
  Colliding,    (* Those that sanitizeModelId maps to one name.            *)
  MaxCalls      (* Bounds the calls.                                       *)

ASSUME StoreAssumption ==
  /\ Colliding \subseteq Ids
  /\ {"part", "absent"} \cap Ids = {}
  /\ MaxCalls \in Nat

VARIABLES
  manifest,     (* The ids with an entry in .llm-manifest.json.            *)
  file,         (* What is under each path: the model it was all written   *)
                (*   for, "part" of one, or "absent".                      *)
  call,         (* The calls made and where each is.                       *)
  written,      (* History: the ids once written to the end.               *)
  kept,         (* History: the ids stored and not asked to be removed.    *)
  alone,        (* History: there never were two calls at once.            *)
  broken,       (* History: a download broke off or a call vanished.       *)
  torn,         (* History: ids whose removal vanished after their file.   *)
  removals      (* History: there was a removal.                           *)

vars == <<manifest, file, call, written, kept, alone, broken, torn, removals>>
history == <<written, kept, alone, broken, torn, removals>>

(* pathForModelId; a path is named by one of the ids that have it.         *)
Path(id) == IF id \in Colliding THEN CHOOSE x \in Colliding : TRUE ELSE id

Place == {"look", "fetch", "create", "write", "erase", "open", "read", "save"}
Call == [op : {"ensure", "remove", "open"}, id : Ids, at : Place,
         locks : BOOLEAN,      (* It holds a sync access handle.           *)
         seen : SUBSET Ids]    (* The manifest it read to change.          *)
Done == [at |-> "done"]

TypeOK ==
  /\ manifest \subseteq Ids
  /\ file \in [{Path(id) : id \in Ids} -> Ids \cup {"part", "absent"}]
  /\ call \in Seq(Call \cup {Done})
  /\ Len(call) <= MaxCalls
  /\ written \subseteq Ids /\ kept \subseteq Ids /\ torn \subseteq Ids
  /\ alone \in BOOLEAN /\ broken \in BOOLEAN /\ removals \in BOOLEAN
  (* createSyncAccessHandle excludes writers and other handles.            *)
  /\ \A c, d \in DOMAIN call :
       /\ c # d /\ call[c] # Done /\ call[d] # Done
       /\ call[c].locks /\ Path(call[c].id) = Path(call[d].id)
       => ~call[d].locks /\ call[d].at # "write"

Init ==
  /\ manifest = {}
  /\ file = [p \in {Path(id) : id \in Ids} |-> "absent"]
  /\ call = <<>>
  /\ written = {} /\ kept = {} /\ torn = {}
  /\ alone = TRUE /\ broken = FALSE /\ removals = FALSE

-----------------------------------------------------------------------------
Active(c) == call[c] # Done
Goto(c, at) == call' = [call EXCEPT ![c].at = at]
Finish(c) == call' = [call EXCEPT ![c] = Done]

(* The browser's locks on a file.                                          *)
Written(p) == \E c \in DOMAIN call : call[c].at = "write" /\ Path(call[c].id) = p
Locked(p) == \E c \in DOMAIN call : Active(c) /\ call[c].locks /\ Path(call[c].id) = p

Begin(op, id) ==
  /\ Len(call) < MaxCalls
  /\ call' = Append(call, [op |-> op, id |-> id, at |-> "look", locks |-> FALSE, seen |-> {}])
  /\ alone' = (alone /\ ~\E c \in DOMAIN call : Active(c))
  /\ kept' = IF op = "remove" THEN kept \ {id} ELSE kept
  /\ removals' = (removals \/ op = "remove")
  /\ UNCHANGED <<manifest, file, written, broken, torn>>

(* Mutant: a model is downloaded again although it has an entry.           *)
LookAgain(c) ==
  LET known == call[c].id \in manifest
      op == call[c].op
  IN
  /\ call[c].at = "look"
  /\ \/ op = "ensure" /\ Goto(c, "fetch")
     \/ op = "remove" /\ known /\ Goto(c, "erase")
     \/ op = "open" /\ known /\ Goto(c, "open")
     \/ op # "ensure" /\ ~known /\ Finish(c)
  /\ UNCHANGED <<manifest, file, history>>

(* getManifestEntry, and what the call does with it or without.            *)
Look(c) ==
  LET known == call[c].id \in manifest
      op == call[c].op
  IN
  /\ call[c].at = "look"
  /\ \/ op = "ensure" /\ Goto(c, IF known THEN "read" ELSE "fetch")
     \/ op = "remove" /\ known /\ Goto(c, "erase")
     \/ op = "open" /\ known /\ Goto(c, "open")
     \/ op # "ensure" /\ ~known /\ Finish(c)
  /\ UNCHANGED <<manifest, file, history>>

(* The server answers or not; getFileHandle makes the file.                *)
Fetch(c) ==
  LET p == Path(call[c].id) IN
  /\ call[c].at = "fetch"
  /\ \/ Finish(c) /\ UNCHANGED file
     \/ /\ Goto(c, "create")
        /\ file' = [file EXCEPT ![p] = IF @ = "absent" THEN "part" ELSE @]
  /\ UNCHANGED <<manifest, history>>

(* createWritable is refused while a sync access handle is open; it makes  *)
(* a file that was removed meanwhile fail too.                             *)
CreateWritable(c) ==
  LET p == Path(call[c].id) IN
  /\ call[c].at = "create"
  /\ IF Locked(p) \/ file[p] = "absent" THEN Finish(c) ELSE Goto(c, "write")
  /\ UNCHANGED <<manifest, file, history>>

(* The stream is written to its end and the file replaced.                 *)
WriteAll(c) ==
  LET id == call[c].id IN
  /\ call[c].at = "write"
  /\ file' = [file EXCEPT ![Path(id)] = id]
  /\ written' = written \cup {id}
  /\ Goto(c, "read")
  /\ UNCHANGED <<manifest, kept, alone, broken, torn, removals>>

(* Mutant: a stream that broke off counts as a whole one.                  *)
WriteBreaksUnseen(c) ==
  /\ call[c].at = "write"
  /\ file' = [file EXCEPT ![Path(call[c].id)] = "part"]
  /\ broken' = TRUE
  /\ Goto(c, "read")
  /\ UNCHANGED <<manifest, written, kept, alone, torn, removals>>

(* The stream breaks off or is aborted: close() in the finally replaces    *)
(* the file by what has arrived, and the call fails.                       *)
WriteBreaks(c) ==
  /\ call[c].at = "write"
  /\ file' = [file EXCEPT ![Path(call[c].id)] = "part"]
  /\ broken' = TRUE
  /\ Finish(c)
  /\ UNCHANGED <<manifest, written, kept, alone, torn, removals>>

(* removeEntry, refused while the file is in use; whether it fails or not  *)
(* the entry is removed next.                                              *)
Erase(c) ==
  LET p == Path(call[c].id) IN
  /\ call[c].at = "erase"
  /\ file' = [file EXCEPT ![p] = IF Locked(p) \/ Written(p) THEN @ ELSE "absent"]
  /\ Goto(c, "read")
  /\ UNCHANGED <<manifest, history>>

(* The sync access handle; or a File, where there are no such handles.     *)
Open(c) ==
  LET p == Path(call[c].id) IN
  /\ call[c].at = "open"
  /\ \/ /\ file[p] # "absent" /\ ~Locked(p) /\ ~Written(p)
        /\ call' = [call EXCEPT ![c].at = "read", ![c].locks = TRUE]
     \/ file[p] # "absent" /\ Goto(c, "read")
     \/ (file[p] = "absent" \/ Locked(p) \/ Written(p)) /\ Finish(c)
  /\ UNCHANGED <<manifest, file, history>>

(* The first half of upsertManifestEntry and removeManifestEntry; there is *)
(* nothing to remove when the entry is gone.                               *)
ReadManifest(c) ==
  /\ call[c].at = "read"
  /\ IF call[c].op = "remove" /\ call[c].id \notin manifest
     THEN Finish(c)
     ELSE call' = [call EXCEPT ![c].at = "save", ![c].seen = manifest]
  /\ UNCHANGED <<manifest, file, history>>

(* Mutant: the entries that were read are not written back.                *)
SaveManifestAnew(c) ==
  LET id == call[c].id IN
  /\ call[c].at = "save"
  /\ manifest' = IF call[c].op = "remove" THEN {} ELSE {id}
  /\ kept' = IF call[c].op = "ensure" THEN kept \cup {id} ELSE kept
  /\ Finish(c)
  /\ UNCHANGED <<file, written, alone, broken, torn, removals>>

(* Their second half: what was read, changed, replaces the manifest.  The  *)
(* load after an open() and the closing of its handle are one task.        *)
SaveManifest(c) ==
  LET id == call[c].id IN
  /\ call[c].at = "save"
  /\ manifest' = IF call[c].op = "remove" THEN call[c].seen \ {id}
                 ELSE call[c].seen \cup {id}
  /\ kept' = IF call[c].op = "ensure" THEN kept \cup {id} ELSE kept
  /\ Finish(c)
  /\ UNCHANGED <<file, written, alone, broken, torn, removals>>

(* The tab or worker is gone: files being written stay as they were.       *)
Vanish(c) ==
  /\ Active(c)
  /\ Finish(c)
  /\ broken' = TRUE
  /\ torn' = IF call[c].op = "remove" /\ call[c].at \in {"read", "save"}
             THEN torn \cup {call[c].id} ELSE torn
  /\ UNCHANGED <<manifest, file, written, kept, alone, removals>>

-----------------------------------------------------------------------------
Step(c) ==
  \/ Look(c) \/ Fetch(c) \/ CreateWritable(c) \/ WriteAll(c) \/ WriteBreaks(c)
  \/ Erase(c) \/ Open(c) \/ ReadManifest(c) \/ SaveManifest(c) \/ Vanish(c)

Next ==
  \/ \E op \in {"ensure", "remove", "open"}, id \in Ids : Begin(op, id)
  \/ \E c \in DOMAIN call : Step(c)

Spec == Init /\ [][Next]_vars

-----------------------------------------------------------------------------
(* However calls overlap, break off and vanish, and with ids that collide: *)
(* an entry, also one in a call's stale copy of the manifest, is of a      *)
(* model that was downloaded to the end once.                              *)
EntriesWereWhole ==
  /\ manifest \subseteq written
  /\ \A c \in DOMAIN call : Active(c) => call[c].seen \subseteq written

(* An entry has its whole file, except for ids that share a path and       *)
(* removals that vanished half-way: as long as calls come one at a time,   *)
(* whatever breaks off or vanishes; and however they overlap, as long as   *)
(* nothing breaks off, vanishes or is removed.                             *)
EntriesBacked ==
  alone \/ ~(broken \/ removals) =>
    \A id \in manifest \ (Colliding \cup torn) :
      \/ file[id] = id
      \/ \E c \in DOMAIN call : Active(c) /\ call[c].op = "remove" /\ call[c].id = id

(* A model stored by calls that come one at a time keeps its entry until   *)
(* somebody asks for its removal.                                          *)
EntriesKept == alone => kept \subseteq manifest
=============================================================================
