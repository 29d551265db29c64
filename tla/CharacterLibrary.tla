--------------------------- MODULE CharacterLibrary ---------------------------
(***************************************************************************)
(* The character library and the files uploaded beside it (the routes of   *)
(* backend/app/main.py, ProjectStore of backend/app/storage.py).           *)
(*                                                                         *)
(* A window reads the library with its revision and saves it on condition  *)
(* that the revision is the same; other routes (import, presets, delete,   *)
(* uploads) load, change and save without a condition.  Uploads are        *)
(* coroutines of one event loop, which lets others run only while it waits *)
(* for the next chunk; the other routes run in threads.                    *)
(*                                                                         *)
(* The library is the set of the changes that are in it.                   *)
(***************************************************************************)
EXTENDS Naturals, FiniteSets

CONSTANTS Clients,
          MaxAsked      \* bound on the requests

ASSUME AskedAssumption == MaxAsked \in Nat

VARIABLES
  library,    \* characters.json
  held,       \* the client whose request holds _characters_lock
  loop,       \* the coroutine that runs, unless it waits
  ask,        \* client -> its request
  stored,     \* directory -> name -> what was uploaded under it, 0 if nothing
  answered,   \* the uploads that were answered
  asked

libraryVars == <<library, held, loop, ask, stored, answered, asked>>

NoOne == "free"
ASSUME NobodyAssumption == NoOne \notin Clients
Dirs == {"characters", "project"}
Slots == 1..MaxAsked
NoAsk == [pc |-> "idle", kind |-> "none", edit |-> 0, base |-> {}, revision |-> {}, name |-> 0,
          alone |-> TRUE, answer |-> "none"]

LibraryInit ==
  /\ library = {} /\ held = NoOne /\ loop = NoOne
  /\ ask = [c \in Clients |-> NoAsk]
  /\ stored = [d \in Dirs |-> [n \in Slots |-> 0]]
  /\ answered = {} /\ asked = 0

OnTo(c, pc) == ask' = [ask EXCEPT ![c].pc = pc]
Over(c, a) == ask' = [ask EXCEPT ![c] = [NoAsk EXCEPT !.answer = a]]

Uploading(d) == {c \in Clients : ask[c].pc # "idle" /\ ask[c].kind = d}

AskLibrary(c, kind) ==
  /\ ask[c].pc = "idle" /\ asked < MaxAsked
  /\ asked' = asked + 1
  /\ ask' = [x \in Clients |->
       IF x = c THEN [NoAsk EXCEPT !.kind = kind, !.edit = asked + 1, !.alone = Uploading(kind) = {},
                        !.pc = IF kind = "window" THEN "list" ELSE IF kind = "project" THEN "await" ELSE "load",
                        !.name = 0]
       ELSE IF x \in Uploading(kind) THEN [ask[x] EXCEPT !.alone = FALSE] ELSE ask[x]]
  /\ UNCHANGED <<library, held, loop, stored, answered>>

-----------------------------------------------------------------------------
\* Mutant: the lock is given up between the list and its revision.
NotHeld(c) == NoOne

\* load_characters_with_revision holds the lock over both.
HeldBy(c) == c

\* GET /api/characters
ReadList(c) ==
  /\ ask[c].pc = "list" /\ held = NoOne
  /\ ask' = [ask EXCEPT ![c].pc = "revision", ![c].base = library]
  /\ held' = HeldBy(c)
  /\ UNCHANGED <<library, loop, stored, answered, asked>>

ReadRevision(c) ==
  /\ ask[c].pc = "revision" /\ held \in {NoOne, c}
  /\ ask' = [ask EXCEPT ![c].pc = "put", ![c].revision = library]
  /\ held' = NoOne
  /\ UNCHANGED <<library, loop, stored, answered, asked>>

\* PUT /api/characters, with the revision that was read
PutCharacters(c) ==
  /\ ask[c].pc = "put" /\ held = NoOne
  /\ IF ask[c].revision = library
     THEN library' = ask[c].base \cup {ask[c].edit} /\ Over(c, "saved")
     ELSE Over(c, "conflict") /\ UNCHANGED library
  /\ UNCHANGED <<held, loop, stored, answered, asked>>

-----------------------------------------------------------------------------
\* A route without a condition loads the library; an upload then waits for
\* its file.
LoadCharacters(c) ==
  /\ ask[c].pc = "load" /\ held = NoOne
  /\ ask[c].kind = "characters" => loop = NoOne
  /\ ask' = [ask EXCEPT ![c].pc = IF ask[c].kind = "change" THEN "save" ELSE "await", ![c].base = library]
  /\ UNCHANGED <<library, held, loop, stored, answered, asked>>

FreeNames(d) == {n \in Slots : stored[d][n] = 0}
FirstFree(d) == CHOOSE n \in FreeNames(d) : \A m \in FreeNames(d) : n <= m

NamedFirst(kind) == kind = "project"

\* The coroutine runs until it waits; a name chosen before is not looked at
\* again after.
Await(c) ==
  /\ ask[c].pc = "await" /\ loop = NoOne
  /\ ask' = [ask EXCEPT ![c].pc = "chunks", ![c].name = IF NamedFirst(ask[c].kind) THEN FirstFree(ask[c].kind) ELSE 0]
  /\ UNCHANGED <<library, held, loop, stored, answered, asked>>

\* The last chunk has come, or the file is refused.
Received(c) ==
  /\ ask[c].pc = "chunks" /\ loop = NoOne
  /\ \/ /\ ask' = [ask EXCEPT ![c].pc = "write", ![c].name = IF @ = 0 THEN FirstFree(ask[c].kind) ELSE @]
        /\ loop' = c
     \/ Over(c, "refused") /\ UNCHANGED loop
  /\ UNCHANGED <<library, held, stored, answered, asked>>

WriteFile(c) ==
  /\ ask[c].pc = "write"
  /\ LET d == ask[c].kind
     IN /\ stored' = [stored EXCEPT ![d][ask[c].name] = ask[c].edit]
        /\ answered' = answered \cup {[dir |-> d, name |-> ask[c].name, edit |-> ask[c].edit, alone |-> ask[c].alone]}
        /\ IF d = "project" THEN Over(c, "uploaded") /\ loop' = NoOne ELSE OnTo(c, "save") /\ UNCHANGED loop
  /\ UNCHANGED <<library, held, asked>>

\* save_characters without a condition
SaveCharacters(c) ==
  /\ ask[c].pc = "save" /\ held = NoOne
  /\ library' = ask[c].base \cup {ask[c].edit}
  /\ loop' = IF loop = c THEN NoOne ELSE loop
  /\ Over(c, "saved")
  /\ UNCHANGED <<held, stored, answered, asked>>

LibraryStep(c) ==
  \/ ReadList(c) \/ ReadRevision(c) \/ PutCharacters(c) \/ LoadCharacters(c)
  \/ Await(c) \/ Received(c) \/ WriteFile(c) \/ SaveCharacters(c)

LibraryNext ==
  \E c \in Clients : LibraryStep(c) \/ \E kind \in {"window", "change", "characters", "project"} : AskLibrary(c, kind)

LibrarySpec == LibraryInit /\ [][LibraryNext]_libraryVars

-----------------------------------------------------------------------------
\* A window that saves on the revision it has read never undoes a change
\* another window, or a route without a condition, has made since.
WindowsLoseNothing ==
  [][\A c \in Clients : ask[c].pc = "put" /\ ask'[c].answer = "saved" => library \subseteq library']_libraryVars

\* A file that was uploaded keeps its content: no later or simultaneous
\* upload of the same name writes over it.  For a project this holds of the
\* uploads that no other overlaps.
UploadsKept ==
  \A a \in answered : a.dir = "characters" \/ a.alone => stored[a.dir][a.name] = a.edit

\* Neither a window nor an upload undoes what another has done.
EditingKept == []UploadsKept /\ WindowsLoseNothing
=============================================================================
