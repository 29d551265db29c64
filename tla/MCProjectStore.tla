--------------------------- MODULE MCProjectStore ---------------------------
(***************************************************************************)
(* Instances of ProjectStore.  Ids p and q, titles x and p's own id; y and *)
(* z are the second names tried.  The calls are made once each, in any     *)
(* order, and what they leave behind stays.                                *)
(***************************************************************************)
EXTENDS ProjectStore, TLC

CONSTANTS p, q, x, y, z, t1, t2, t3, t4, t5, t6

Sorted == <<p, q, x, y, z>>
Tries  == (p :> <<p, y, z>>) @@ (q :> <<q, y, z>>) @@ (x :> <<x, y, z>>) @@ (y :> <<y, z>>) @@ (z :> <<z>>)

Call(kind, project, title) == [kind |-> kind, project |-> project, title |-> title]
Saves(project, title) == Call("save", project, title)
Edits(project)        == Call("save", project, Keep)
Updates(project)      == Call("update", project, Keep)
Deletes(project)      == Call("delete", project, Keep)

\* Project p is created, edited, generated for twice and deleted; project q
\* wants p's id for a title.
CalmOps == (t1 :> Saves(p, x)) @@ (t2 :> Saves(q, p)) @@ (t3 :> Updates(p)) @@ (t4 :> Updates(p))
             @@ (t5 :> Edits(p)) @@ (t6 :> Deletes(p))

\* A project is created or deleted when nothing else goes on.
Calm == {{t, u} : t \in {t1, t2, t6}, u \in Threads} \ {{t} : t \in Threads}

NoneThere == [n \in Names |-> Empty]

\* Project p is there, with a manifest.
Spoken == [n \in Names |-> IF n = x
             THEN [there |-> TRUE, marker |-> p, project |-> File({}, x), manifest |-> File({}, Keep)]
             ELSE Empty]

\* It gets another title during a manifest transaction.
RetitleOps == (t1 :> Saves(p, q)) @@ (t2 :> Updates(p)) @@ (t3 :> Updates(p))
=============================================================================
