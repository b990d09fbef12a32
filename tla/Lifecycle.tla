------------------------------- MODULE Lifecycle -------------------------------
(***************************************************************************)
(* Brain's attachment to an AI-Verse OS (lifecycle.py,                     *)
(* extension_registry.py, write_gate.py), its installation marker          *)
(* (installation.py, migration.py) and, seen from there, the ownership of  *)
(* direction (Direction is its own module).  Several lifecycle commands    *)
(* run at once, the OS edits its registry between them, and a process can  *)
(* die anywhere.                                                           *)
(*                                                                         *)
(* A change of the registry takes a lock file, reads, compares what it has *)
(* read with what is there, and replaces the file.  The lock file has no   *)
(* expiry: whoever dies with it blocks every later change, and not the     *)
(* edits of the OS, whose own locking src/ does not show.                  *)
(***************************************************************************)
EXTENDS Naturals

CONSTANTS Worker, None,
          MaxCommands, MaxCommandCrashes,
          MaxEdits     \* edits of the registry by its owner, the OS

VARIABLES registry,   \* Brain's entry, and how often the OS edited the rest
          edits,      \* edits the OS made
          lockFile,
          marker,     \* installation marker: which one it is, and whose package wrote it
          identities, \* markers that were ever created
          owner,      \* of strategic direction
          command,    \* what each worker is doing
          overlapped, \* a handover ran while the attachment was taken away
          silently,   \* a disabled Brain was enabled by something else than enable
          squeezed,   \* an edit of the OS came between comparison and replacement
          unseen,     \* markers written over one that appeared meanwhile
          commands, commandCrashes

vars == <<registry, edits, lockFile, marker, identities, owner, command, overlapped,
          silently, squeezed, unseen, commands, commandCrashes>>

Attachment == {"absent", "enabled", "disabled"}
Registry == [brain : Attachment, os : 0 .. MaxEdits]
NoMarker == [id |-> 0, package |-> "none"]

Op == {"setup", "enable", "disable", "uninstall", "update", "handover"}
Free == [op |-> "none", at |-> "idle", read |-> [brain |-> "absent", os |-> 0]]
Command == [op : Op \cup {"none"}, read : Registry,
            at : {"idle", "attach", "compare", "replace", "release", "initialize", "mark", "refresh", "transfer"}]

\* A new host, or one that an earlier release of the package was set up in.
Init ==
  /\ \E old \in BOOLEAN :
       /\ registry = [brain |-> IF old THEN "enabled" ELSE "absent", os |-> 0]
       /\ marker = IF old THEN [id |-> 1, package |-> "old"] ELSE NoMarker
       /\ identities = IF old THEN 1 ELSE 0
  /\ edits = 0
  /\ lockFile = None
  /\ owner = "os"
  /\ command = [w \in Worker |-> Free]
  /\ overlapped = FALSE /\ silently = FALSE /\ squeezed = FALSE /\ unseen = 0
  /\ commands = 0 /\ commandCrashes = 0

Goes(w, stage) ==
  command' = [command EXCEPT ![w] = IF stage = "idle" THEN Free ELSE [@ EXCEPT !.at = stage]]
Begins(w, op, stage) ==
  /\ command[w] = Free
  /\ commands < MaxCommands /\ commands' = commands + 1
  /\ command' = [command EXCEPT ![w] = [Free EXCEPT !.op = op, !.at = stage]]

\* require_write_ready and, with bootstrap, the same without a marker
WriteReady(bootstrap) == registry.brain = "enabled" /\ (bootstrap \/ marker.package # "none")

-----------------------------------------------------------------------------
\* What each command looks at before it changes anything

Setup(w) ==
  /\ registry.brain # "disabled"   \* setup will not silently re-enable disabled Brain
  /\ Begins(w, "setup", IF registry.brain = "absent" THEN "attach" ELSE "initialize")
  /\ UNCHANGED <<registry, edits, lockFile, marker, identities, owner, overlapped, silently, squeezed, unseen, commandCrashes>>

Enable(w) ==
  /\ registry.brain # "absent"
  /\ Begins(w, "enable", "attach")
  /\ UNCHANGED <<registry, edits, lockFile, marker, identities, owner, overlapped, silently, squeezed, unseen, commandCrashes>>

\* Mutant: the owned scopes are not asked for.
OwnsNothingUnasked == TRUE

\* _brain_owned_scopes
OwnsNothing == owner = "os"

\* disable and uninstall, also as the commands of the older command line
TakeAway(w, op) ==
  /\ OwnsNothing
  /\ registry.brain # "absent"
  /\ Begins(w, op, "attach")
  /\ overlapped' = (overlapped \/ \E v \in Worker : command[v].op = "handover")
  /\ UNCHANGED <<registry, edits, lockFile, marker, identities, owner, silently, squeezed, unseen, commandCrashes>>

\* The package is refreshed in the marker, then the attachment.
Update(w) ==
  /\ marker.package # "none"
  /\ marker.package = "current" => registry.brain # "absent"
  /\ Begins(w, "update", IF marker.package = "old" THEN "refresh" ELSE "attach")
  /\ UNCHANGED <<registry, edits, lockFile, marker, identities, owner, overlapped, silently, squeezed, unseen, commandCrashes>>

-----------------------------------------------------------------------------
\* A change of the registry

\* _registry_lock and _read_registry; a busy lock refuses the command, as does an
\* entry that is not there.
Attach(w) ==
  /\ command[w].at = "attach"
  /\ IF lockFile # None THEN Goes(w, "idle") /\ UNCHANGED lockFile
     ELSE IF command[w].op \in {"enable", "disable", "uninstall"} /\ registry.brain = "absent"
          THEN Goes(w, "idle") /\ UNCHANGED lockFile
          ELSE /\ command' = [command EXCEPT ![w].at = "compare", ![w].read = registry]
               /\ lockFile' = w
  /\ UNCHANGED <<registry, edits, marker, identities, owner, overlapped, silently, squeezed, unseen, commands, commandCrashes>>

\* the entry that is written
Entry(c) ==
  CASE c.op = "enable" -> "enabled"
    [] c.op = "disable" -> "disabled"
    [] c.op = "uninstall" -> "absent"
    [] OTHER -> IF c.read.brain = "absent" THEN "enabled" ELSE c.read.brain

Compare(w) ==
  /\ command[w].at = "compare"
  /\ IF registry = command[w].read
     THEN Goes(w, "replace") /\ UNCHANGED lockFile
     ELSE Goes(w, "idle") /\ lockFile' = None
  /\ UNCHANGED <<registry, edits, marker, identities, owner, overlapped, silently, squeezed, unseen, commands, commandCrashes>>

Replace(w) ==
  /\ command[w].at = "replace"
  /\ registry' = [command[w].read EXCEPT !.brain = Entry(command[w])]
  /\ silently' = (silently \/ (registry.brain = "disabled" /\ registry'.brain = "enabled"
                               /\ command[w].op # "enable"))
  /\ squeezed' = (squeezed \/ registry # command[w].read)
  /\ Goes(w, "release")
  /\ UNCHANGED <<edits, lockFile, marker, identities, owner, overlapped, unseen, commands, commandCrashes>>

Release(w) ==
  /\ command[w].at = "release"
  /\ lockFile' = None
  /\ Goes(w, IF command[w].op = "setup" THEN "initialize" ELSE "idle")
  /\ UNCHANGED <<registry, edits, marker, identities, owner, overlapped, silently, squeezed, unseen, commands, commandCrashes>>

\* The owner of the registry edits the entries of others.
OsEdits ==
  /\ edits < MaxEdits /\ edits' = edits + 1
  /\ registry' = [registry EXCEPT !.os = @ + 1]
  /\ UNCHANGED <<lockFile, marker, identities, owner, command, overlapped, silently, squeezed, unseen, commands, commandCrashes>>

-----------------------------------------------------------------------------
\* The installation marker

\* initialize, up to its look for a marker; it attaches a Brain that is not
Initialize(w) ==
  /\ command[w].at = "initialize"
  /\ Goes(w, CASE registry.brain = "absent" -> "attach"
               [] WriteReady(TRUE) /\ marker = NoMarker -> "mark"
               [] OTHER -> "idle")
  /\ UNCHANGED <<registry, edits, lockFile, marker, identities, owner, overlapped, silently, squeezed, unseen, commands, commandCrashes>>

WriteMarker(w) ==
  /\ command[w].at = "mark"
  /\ identities' = identities + 1
  /\ marker' = [id |-> identities + 1, package |-> "current"]
  /\ unseen' = IF marker = NoMarker THEN unseen ELSE unseen + 1
  /\ Goes(w, "idle")
  /\ UNCHANGED <<registry, edits, lockFile, owner, overlapped, silently, squeezed, commands, commandCrashes>>

\* apply_migration of the metadata, while Brain is attached, enabled or not
Refresh(w) ==
  /\ command[w].at = "refresh"
  /\ IF registry.brain = "absent" THEN Goes(w, "idle") /\ UNCHANGED marker
     ELSE marker' = [marker EXCEPT !.package = "current"] /\ Goes(w, "attach")
  /\ UNCHANGED <<registry, edits, lockFile, identities, owner, overlapped, silently, squeezed, unseen, commands, commandCrashes>>

-----------------------------------------------------------------------------
\* Ownership of direction: a handover passes the write gate first and records
\* the owner last.

BeginHandover(w) ==
  /\ owner = "os" /\ WriteReady(FALSE)
  /\ Begins(w, "handover", "transfer")
  /\ overlapped' = (overlapped \/ \E v \in Worker : command[v].op \in {"disable", "uninstall"})
  /\ UNCHANGED <<registry, edits, lockFile, marker, identities, owner, silently, squeezed, unseen, commandCrashes>>

RecordOwner(w) ==
  /\ command[w].at = "transfer"
  /\ owner' = "brain"
  /\ Goes(w, "idle")
  /\ UNCHANGED <<registry, edits, lockFile, marker, identities, overlapped, silently, squeezed, unseen, commands, commandCrashes>>

Handback ==
  /\ owner = "brain" /\ WriteReady(FALSE)
  /\ owner' = "os"
  /\ UNCHANGED <<registry, edits, lockFile, marker, identities, command, overlapped, silently, squeezed, unseen, commands, commandCrashes>>

Die(w) ==
  /\ command[w] # Free
  /\ commandCrashes < MaxCommandCrashes /\ commandCrashes' = commandCrashes + 1
  /\ Goes(w, "idle")
  /\ UNCHANGED <<registry, edits, lockFile, marker, identities, owner, overlapped, silently, squeezed, unseen, commands>>

Next ==
  \/ \E w \in Worker :
       \/ Setup(w) \/ Enable(w) \/ Update(w) \/ \E op \in {"disable", "uninstall"} : TakeAway(w, op)
       \/ Attach(w) \/ Compare(w) \/ Replace(w) \/ Release(w)
       \/ Initialize(w) \/ WriteMarker(w) \/ Refresh(w)
       \/ BeginHandover(w) \/ RecordOwner(w) \/ Die(w)
  \/ OsEdits \/ Handback

Spec == Init /\ [][Next]_vars

-----------------------------------------------------------------------------

TypeOK ==
  /\ registry \in Registry /\ edits \in 0 .. MaxEdits
  /\ lockFile \in Worker \cup {None}
  /\ marker \in [id : Nat, package : {"none", "old", "current"}] /\ identities \in Nat
  /\ owner \in {"os", "brain"}
  /\ command \in [Worker -> Command]
  /\ {overlapped, silently, squeezed} \subseteq BOOLEAN /\ unseen \in Nat
  /\ commands \in 0 .. MaxCommands /\ commandCrashes \in 0 .. MaxCommandCrashes

\* lifecycle.py:210: Brain is neither disabled nor detached while it owns
\* direction, unless a handover was under way when it was taken away.
OwnerStaysEnabled == owner = "brain" /\ ~overlapped => registry.brain = "enabled"

\* lifecycle.py:191: setup, update or attach never enable a Brain that the user
\* disabled, also when the entry changes between their look and their lock.
NeverSilentlyEnabled == ~silently

\* An edit of the OS is lost only when it hits the instant between comparison
\* and replacement.
OthersAreKept == registry.os = edits \/ squeezed

\* One installation keeps one identity; a second set-up that looked before the
\* first one wrote gives it another.
OneIdentity == identities <= 1 + unseen
=============================================================================
