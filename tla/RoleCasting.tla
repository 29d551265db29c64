----------------------------- MODULE RoleCasting -----------------------------
(***************************************************************************)
(* How a project's roles get their voices from the character library       *)
(* (backend/app/role_library.py, its routes in backend/app/main.py and the *)
(* loading of a project in backend/app/models.py).                         *)
(*                                                                         *)
(* The shelf is the library as this module needs it: characters in their   *)
(* order, each with the version of its voice.  A project maps its roles to *)
(* characters, by reference or by a snapshot; every parse of its script    *)
(* keeps the mapping it was made with.  A request loads what it needs and  *)
(* saves it later: no lock and no revision ties the two together.          *)
(*                                                                         *)
(* Names are compared after normalisation.  The bindings of a project and  *)
(* of a line, which go before any voice, are left out.                     *)
(***************************************************************************)
EXTENDS CharacterLibrary, VoiceCatalog

CONSTANTS Characters,   \* ids of library characters
          Named,        \* character -> its name
          Answers,      \* character -> what it answers to: id, name, aliases, nicknames, match names
          Roles,        \* character ids the lines of a script may have
          Presets,      \* the common presets, in their order
          Recasts,      \* what windows do to a mapping: [role, link]
          MaxCasts,     \* bound on the requests
          MaxParses     \* bound on the parse revisions

ASSUME AnswersAssumption == \A k \in Characters : {k, Named[k]} \subseteq Answers[k]

VARIABLES
  shelf,      \* characters.json
  script,     \* project.json
  order,      \* client -> its request
  promised,   \* role -> the voice a freeze has answered, until something undoes it
  cast        \* the requests so far

castVars == <<shelf, script, order, promised, cast>>

NoVoice == [id |-> NoOne, version |-> 0]
Unmatched(n) == [name |-> n, link |-> NoOne, mode |-> "reference", snapshot |-> NoVoice]
NoOrder == [pc |-> "idle", kind |-> "none", arg |-> NoOne, nr |-> 0, script |-> <<>>, shelf |-> <<>>, seen |-> <<>>,
            answer |-> "none", voice |-> NoVoice]

\* A project that has no parse revision gets one of the lines it came with.
CastInit ==
  /\ shelf = << [id |-> Presets[1], version |-> 0] >>
  /\ script = [cast |-> <<>>, parses |-> <<[cast |-> <<>>, lines |-> Roles]>>, active |-> 1]
  /\ order = [c \in Clients |-> NoOrder]
  /\ promised = [r \in Roles |-> NoVoice]
  /\ cast = 0

-----------------------------------------------------------------------------
\* Looking a name up: of several characters that answer to it the last one
\* in the library has it.
Answering(lib, n) == {i \in DOMAIN lib : n \in Answers[lib[i].id]}
LastOf(S) == CHOOSE i \in S : \A j \in S : j <= i

\* existing.name, or the role itself
Shown(p, r) == IF r \in DOMAIN p.cast THEN p.cast[r].name ELSE r

Matched(lib, n, r) ==
  LET by == IF Answering(lib, n) # {} THEN Answering(lib, n) ELSE Answering(lib, r)
      k == lib[LastOf(by)].id
  IN IF by = {} THEN Unmatched(n) ELSE [Unmatched(Named[k]) EXCEPT !.link = k]

\* Loading a project takes its lines from the active parse, and its mapping
\* too if it has none.
Lines(p) == p.parses[p.active].lines
Loaded(p) == [p EXCEPT !.cast = IF DOMAIN @ = {} THEN p.parses[p.active].cast ELSE @]

\* match_project_characters
MatchOf(p, lib, force) ==
  IF DOMAIN p.cast # {} /\ ~force THEN p.cast
  ELSE [r \in Lines(p) |-> Matched(lib, Shown(p, r), r)]

OnShelf(lib, k) == {i \in DOMAIN lib : lib[i].id = k}
ById(lib, k) == IF OnShelf(lib, k) = {} THEN NoVoice ELSE lib[LastOf(OnShelf(lib, k))]

\* resolve_project_characters: the voice a role is spoken with, none if the
\* role is a draft
Voice(m, lib) == IF m.mode = "snapshot" /\ m.snapshot # NoVoice THEN m.snapshot ELSE ById(lib, m.link)
Resolved(p, lib) == LET m == MatchOf(p, lib, FALSE) IN [r \in DOMAIN m |-> Voice(m[r], lib)]

\* _enrich_tasks_for_project: what becomes of the task of a line, and the
\* voice it gets
TaskVoice(m, lib, r) == IF r \in DOMAIN m THEN Voice(m[r], lib) ELSE NoVoice
Enriched(m, lib, r) ==
  IF r \notin DOMAIN m THEN "as asked" ELSE IF TaskVoice(m, lib, r) = NoVoice THEN "refused" ELSE "spoken"

\* freeze_project_character: what is frozen
FrozenFrom(m, lib) == IF m.mode = "snapshot" THEN m.snapshot ELSE ById(lib, m.link)

\* Mutant: the frozen role keeps no copy.
FrozenByName(m, voice) == [m EXCEPT !.mode = "snapshot"]
FrozenAs(m, voice) == [m EXCEPT !.mode = "snapshot", !.snapshot = voice]

\* referenced_projects
Referenced(p, k) == \E r \in DOMAIN p.cast : p.cast[r].mode = "reference" /\ p.cast[r].link = k

\* What a preset is a newer form of; import_common_logs_preset_characters
\* replaces it where it stands, under its own id, or appends the preset.
First(S) == CHOOSE i \in S : \A j \in S : i <= j
Kin(lib, k) == {i \in DOMAIN lib : Answers[lib[i].id] \cap Answers[k] # {}}
WithPresets(lib, replace, v) ==
  [i \in DOMAIN lib |->
     IF replace /\ \E j \in DOMAIN Presets : Kin(lib, Presets[j]) # {} /\ i = First(Kin(lib, Presets[j]))
     THEN [lib[i] EXCEPT !.version = v] ELSE lib[i]]
  \o LET new == SelectSeq(Presets, LAMBDA k : Kin(lib, k) = {})
     IN [i \in DOMAIN new |-> [id |-> new[i], version |-> v]]

Others(lib, k) == SelectSeq(lib, LAMBDA x : x.id # k)

-----------------------------------------------------------------------------
\* An edit saves the library as a window has it, or with an uploaded recording:
\* a character is changed or gone, whatever project refers to it.
OfShelf == {"import", "presets", "edit"}
OfBoth == {"show", "rematch", "freeze", "parse", "drop", "tasks"}
OfProject == {"unfreeze", "activate", "put", "overwrite"}
Windows == {"put", "overwrite"}

ArgsOf(kind) ==
  CASE kind \in {"import", "drop"} -> Characters
    [] kind \in {"freeze", "unfreeze", "tasks"} -> Roles
    [] kind = "presets" -> BOOLEAN
    [] kind = "edit" -> [id : Characters, gone : BOOLEAN]
    [] kind = "parse" -> SUBSET Roles \ {{}}
    [] kind = "activate" -> 1..MaxParses
    [] kind \in Windows -> Recasts
    [] OTHER -> {NoOne}

\* A window that puts a mapping has read it before.
AskCast(c, kind, arg) ==
  /\ order[c].pc = "idle" /\ cast < MaxCasts
  /\ cast' = cast + 1
  /\ order' = [order EXCEPT ![c] =
       [NoOrder EXCEPT !.kind = kind, !.arg = arg, !.nr = IF kind \in OfShelf THEN cast + 1 ELSE 0,
          !.script = IF kind \in Windows THEN Loaded(script) ELSE @, !.seen = IF kind \in Windows THEN promised ELSE @,
          !.pc = IF kind \in OfShelf THEN "library" ELSE IF kind = "overwrite" THEN "save" ELSE "project"]]
  /\ UNCHANGED <<shelf, script, promised>>

Finishes(c, a) == order' = [order EXCEPT ![c] = [NoOrder EXCEPT !.answer = a]]

\* The mapping a put is about, as the window read it, with its edit
Edited(o) ==
  [r \in DOMAIN o.script.cast |->
     IF r = o.arg.role THEN [o.script.cast[r] EXCEPT !.link = o.arg.link, !.mode = "reference", !.snapshot = NoVoice]
     ELSE o.script.cast[r]]

WithActive(p, m) == [p EXCEPT !.cast = m, !.parses[p.active].cast = m]

LoadProject(c) ==
  /\ order[c].pc = "project"
  /\ LET o == order[c]
         project == Loaded(script)
         On(pc, q) == order' = [order EXCEPT ![c].pc = pc, ![c].script = q, ![c].seen = IF o.kind = "put" THEN @ ELSE promised]
     IN CASE o.kind = "drop" /\ Referenced(project, o.arg) -> Finishes(c, "conflict")
          [] o.kind = "unfreeze" /\ o.arg \notin DOMAIN project.cast -> Finishes(c, "not found")
          [] o.kind = "activate" /\ o.arg \notin DOMAIN project.parses -> Finishes(c, "not found")
          [] o.kind = "put" -> On("save", WithActive(project, Edited(o)))
          [] o.kind = "unfreeze" /\ o.arg \in DOMAIN project.cast ->
               On("save", [project EXCEPT !.cast[o.arg].mode = "reference", !.cast[o.arg].snapshot = NoVoice])
          [] o.kind = "activate" /\ o.arg \in DOMAIN project.parses ->
               On("save", [project EXCEPT !.active = o.arg, !.cast = project.parses[o.arg].cast])
          [] OTHER -> On("library", project)
  /\ UNCHANGED <<shelf, script, promised, cast>>

LoadLibrary(c) ==
  /\ order[c].pc = "library"
  /\ LET o == order[c]
         project == o.script
         m == MatchOf(project, shelf, o.kind = "rematch")
         Saves(q) == order' = [order EXCEPT ![c].pc = "save", ![c].shelf = shelf, ![c].script = q]
     IN CASE o.kind = "import" -> Saves(project)
          [] o.kind = "edit" -> IF OnShelf(shelf, o.arg.id) = {} THEN Finishes(c, "not found") ELSE Saves(project)
          [] o.kind = "presets" -> IF WithPresets(shelf, o.arg, o.nr) = shelf THEN Finishes(c, "skipped") ELSE Saves(project)
          [] o.kind = "drop" -> IF OnShelf(shelf, o.arg) = {} THEN Finishes(c, "not found") ELSE Saves(project)
          [] o.kind = "show" -> IF m = project.cast THEN Finishes(c, "shown") ELSE Saves([project EXCEPT !.cast = m])
          [] o.kind = "tasks" ->
               order' = [order EXCEPT ![c] = [NoOrder EXCEPT !.answer = Enriched(m, shelf, o.arg),
                                                             !.voice = TaskVoice(m, shelf, o.arg)]]
          [] o.kind = "rematch" -> Saves(WithActive(project, m))
          [] o.kind = "freeze" ->
               IF o.arg \notin DOMAIN m THEN Finishes(c, "not found")
               ELSE IF FrozenFrom(m[o.arg], shelf) = NoVoice THEN Finishes(c, "conflict")
               ELSE Saves([project EXCEPT !.cast = [m EXCEPT ![o.arg] = FrozenAs(@, FrozenFrom(@, shelf))]])
          [] o.kind = "parse" ->
               IF Len(project.parses) = MaxParses THEN Finishes(c, "refused")   \* by the parser, or the bound
               ELSE LET drafts == [project EXCEPT !.cast = [r \in o.arg |-> Unmatched(r)], !.active = Len(project.parses) + 1,
                                            !.parses = Append(@, [cast |-> <<>>, lines |-> o.arg])]
                    IN Saves(WithActive(drafts, MatchOf(drafts, shelf, TRUE)))
  /\ UNCHANGED <<shelf, script, promised, cast>>

\* What a saved request leaves of the promises: it undoes its own role's, or
\* all by a new matching, or those made after it had loaded.
Stands(o, r) ==
  /\ o.kind \notin {"rematch", "parse", "activate"}
  /\ o.kind \in Windows => r # o.arg.role
  /\ o.kind = "unfreeze" => r # o.arg
  /\ o.seen[r] = promised[r]

SaveProject(c) ==
  /\ order[c].pc = "save" /\ order[c].kind \in OfProject \cup (OfBoth \ {"drop", "tasks"})
  /\ LET o == order[c]
         project == IF o.kind = "overwrite" THEN [o.script EXCEPT !.cast = Edited(o)] ELSE o.script
     IN /\ script' = project
        /\ promised' = [r \in Roles |-> IF o.kind = "freeze" /\ r = o.arg THEN FrozenFrom(Loaded(project).cast[r], o.shelf)
                                        ELSE IF Stands(o, r) THEN promised[r] ELSE NoVoice]
  /\ Finishes(c, "saved")
  /\ UNCHANGED <<shelf, cast>>

SaveShelf(c) ==
  /\ order[c].pc = "save" /\ order[c].kind \in OfShelf \cup {"drop"}
  /\ LET o == order[c]
     IN shelf' = CASE o.kind = "import" -> Append(Others(o.shelf, o.arg), [id |-> o.arg, version |-> o.nr])
                   [] o.kind = "presets" -> WithPresets(o.shelf, o.arg, o.nr)
                   [] o.kind = "drop" -> Others(o.shelf, o.arg)
                   [] o.kind = "edit" -> IF o.arg.gone THEN Others(o.shelf, o.arg.id)
                                         ELSE [i \in DOMAIN o.shelf |-> IF o.shelf[i].id = o.arg.id
                                                                       THEN [id |-> o.arg.id, version |-> o.nr] ELSE o.shelf[i]]
  /\ Finishes(c, "saved")
  /\ UNCHANGED <<script, promised, cast>>

\* A window that sends the revision of what it edited is refused if that changed.
RefuseShelf(c) ==
  /\ order[c].pc = "save" /\ order[c].kind = "edit" /\ order[c].shelf # shelf
  /\ Finishes(c, "conflict")
  /\ UNCHANGED <<shelf, script, promised, cast>>

CastStep(c) == LoadProject(c) \/ LoadLibrary(c) \/ SaveProject(c) \/ SaveShelf(c) \/ RefuseShelf(c)

CastNext ==
  \E c \in Clients : CastStep(c) \/ \E kind \in OfShelf \cup OfBoth \cup OfProject : \E arg \in ArgsOf(kind) : AskCast(c, kind, arg)

CastSpec == CastInit /\ [][CastNext]_castVars

-----------------------------------------------------------------------------
\* A role that was frozen is spoken with the voice it was frozen with,
\* whatever imports, presets and deletes do to the library meanwhile, until a
\* request that is meant to undo it, or that had read the project before,
\* saves the project.
FrozenKept ==
  \A r \in Roles : promised[r] # NoVoice =>
    LET project == Loaded(script) IN r \in DOMAIN project.cast /\ Resolved(project, shelf)[r] = promised[r]

\* A task for a role that was frozen when its project was loaded is spoken
\* with that voice, whatever is saved before the library is loaded.
SpokenAsFrozen ==
  [][\A c \in Clients :
       LET o == order[c]
       IN o.kind = "tasks" /\ o.pc = "library" /\ order'[c].pc = "idle" /\ o.seen[o.arg] # NoVoice
          => order'[c].voice = o.seen[o.arg]]_castVars

\* A request to delete a character deletes it only if no role of a mapped
\* project loses its voice, provided nothing was saved since the request
\* looked.  A window that saves a library without the character is not asked.
DeletesHeard ==
  [][\A c \in Clients :
       /\ order[c].kind = "drop" /\ order[c].pc = "save" /\ order'[c].answer = "saved"
       /\ order[c].script = Loaded(script) /\ order[c].shelf = shelf /\ DOMAIN Loaded(script).cast # {}
       => Resolved(Loaded(script), shelf') = Resolved(Loaded(script), shelf)]_castVars

\* Matching a project again changes nothing if no two characters of the
\* library answer to one name.
MatchingSettles ==
  LET project == Loaded(script)
      once == [project EXCEPT !.cast = MatchOf(project, shelf, TRUE)]
      apart == \A i, j \in DOMAIN shelf : i # j => Answers[shelf[i].id] \cap Answers[shelf[j].id] = {}
  IN apart => MatchOf(once, shelf, TRUE) = once.cast

\* The voices of a project's roles change only by what is meant to.
CastKept == [](FrozenKept /\ MatchingSettles) /\ SpokenAsFrozen /\ DeletesHeard

\* What is edited, uploaded, cast or offered for import stays what it was.
LibraryKept == EditingKept /\ CastKept /\ []CatalogKept
=============================================================================
