------------------------------ MODULE ArtifactStore ------------------------------
(***************************************************************************)
(* S3ArtifactStore (apps/backend/repositories/s3.py): immutable artifacts  *)
(* under the SHA-256 of their bytes, written by concurrent callers.        *)
(*                                                                         *)
(* put() is one conditional put_object and, when S3 says that the key is   *)
(* taken, a second call that reads what is there and compares it.  As in   *)
(* JobRepository a put may be applied late, after its caller gave up, and  *)
(* an applied put may go unanswered and be delivered again.                *)
(*                                                                         *)
(* The digest is not assumed injective, and the bucket may hold foreign    *)
(* objects from the start: the code checks for both.                       *)
(***************************************************************************)
EXTENDS Naturals

CONSTANTS
    Callers,
    Contents,   \* byte strings
    Digests,    \* values of ArtifactReference.content_digest
    DigestOf,   \* hashlib.sha256, a function from Contents to Digests
    None

ASSUME DigestAssumption == DigestOf \in [Contents -> Digests]
ASSUME NoneAssumption == None \notin Contents

VARIABLES
    objects,  \* S3: the bytes under each digest's key, or None
    pc,       \* where each caller's put stands
    content,  \* the bytes each caller last called put with, or None
    late,     \* puts that S3 may still apply though their caller gave up
    result,   \* how each caller's last call ended
    acked     \* history: the contents whose put returned a reference

vars == <<objects, pc, content, late, result, acked>>

Errors == {"ArtifactStoreError", "ArtifactNotFoundError",
           "ArtifactCollisionError", "ArtifactIntegrityError"}

\* A call returns a reference (put), bytes (get), or raises.
Outcomes == [kind : {"none", "reference"} \cup Errors, bytes : {None}]
            \cup [kind : {"bytes"}, bytes : Contents]

Outcome(kind) == [kind |-> kind, bytes |-> None]

Init ==
    /\ objects \in [Digests -> Contents \cup {None}]
    /\ pc = [c \in Callers |-> "idle"]
    /\ content = [c \in Callers |-> None]
    /\ late = {}
    /\ result = [c \in Callers |-> Outcome("none")]
    /\ acked = {}

-----------------------------------------------------------------------------
Reply(c, outcome) ==
    /\ pc' = [pc EXCEPT ![c] = "idle"]
    /\ result' = [result EXCEPT ![c] = outcome]

\* Mutant: put_object without If-None-Match.
KeyAlwaysFree(x) == TRUE

\* S3 under If-None-Match: "*": create the object or leave the key alone.
KeyFree(x) == objects[DigestOf[x]] = None

\* Mutant: a put, the late ones included, replaces what is there.
OverwriteObject(x) == objects' = [objects EXCEPT ![DigestOf[x]] = x]

CreateObject(x) ==
    objects' = IF KeyFree(x) THEN [objects EXCEPT ![DigestOf[x]] = x] ELSE objects

PutStart(c, x) ==
    /\ pc[c] = "idle"
    /\ pc' = [pc EXCEPT ![c] = "putting"]
    /\ content' = [content EXCEPT ![c] = x]
    /\ result' = [result EXCEPT ![c] = Outcome("none")]
    /\ UNCHANGED <<objects, late, acked>>

PutCreated(c) ==
    /\ pc[c] = "putting"
    /\ KeyFree(content[c])
    /\ CreateObject(content[c])
    /\ Reply(c, Outcome("reference"))
    /\ acked' = acked \cup {content[c]}
    /\ UNCHANGED <<content, late>>

\* PreconditionFailed: the key is taken, go and look by whom.
PutRefused(c) ==
    /\ pc[c] = "putting"
    /\ ~KeyFree(content[c])
    /\ pc' = [pc EXCEPT ![c] = "checking"]
    /\ UNCHANGED <<objects, content, late, result, acked>>

\* S3 creates the object and the answer is lost: the SDK sends the put again.
PutUnanswered(c) ==
    /\ pc[c] = "putting"
    /\ KeyFree(content[c])
    /\ CreateObject(content[c])
    /\ UNCHANGED <<pc, content, late, result, acked>>

\* Any other failure of put_object; the request may arrive all the same.
PutFails(c) ==
    /\ pc[c] = "putting"
    /\ late' \in {late, late \cup {content[c]}}
    /\ Reply(c, Outcome("ArtifactStoreError"))
    /\ UNCHANGED <<objects, content, acked>>

LatePut(x) ==
    /\ CreateObject(x)
    /\ late' = late \ {x}
    /\ UNCHANGED <<pc, content, result, acked>>

\* Mutant: a taken key is a collision, whatever is under it.
ReadBackAccuses(c) ==
    /\ pc[c] = "checking"
    /\ Reply(c, Outcome("ArtifactCollisionError"))
    /\ UNCHANGED <<objects, content, late, acked>>

\* The read after PreconditionFailed, and the comparison of the bytes.
ReadBack(c) ==
    LET existing == objects[DigestOf[content[c]]]
    IN  /\ pc[c] = "checking"
        /\ Reply(c, IF existing = None THEN Outcome("ArtifactNotFoundError")
                    ELSE IF existing = content[c] THEN Outcome("reference")
                    ELSE Outcome("ArtifactCollisionError"))
        /\ acked' = IF existing = content[c] THEN acked \cup {content[c]} ELSE acked
        /\ UNCHANGED <<objects, content, late>>

ReadBackFails(c) ==
    /\ pc[c] = "checking"
    /\ Reply(c, Outcome("ArtifactStoreError"))
    /\ UNCHANGED <<objects, content, late, acked>>

\* Mutant: get returns what is there without computing its digest.
GetUnverified(c, d) ==
    /\ pc[c] = "idle"
    /\ Reply(c, IF objects[d] = None THEN Outcome("ArtifactNotFoundError")
                ELSE [kind |-> "bytes", bytes |-> objects[d]])
    /\ content' = [content EXCEPT ![c] = None]
    /\ UNCHANGED <<objects, late, acked>>

\* get: the bytes under the reference's key, if they have its digest.
Get(c, d) ==
    /\ pc[c] = "idle"
    /\ Reply(c, IF objects[d] = None THEN Outcome("ArtifactNotFoundError")
                ELSE IF DigestOf[objects[d]] # d THEN Outcome("ArtifactIntegrityError")
                ELSE [kind |-> "bytes", bytes |-> objects[d]])
    /\ content' = [content EXCEPT ![c] = None]
    /\ UNCHANGED <<objects, late, acked>>

GetFails(c) ==
    /\ pc[c] = "idle"
    /\ Reply(c, Outcome("ArtifactStoreError"))
    /\ content' = [content EXCEPT ![c] = None]
    /\ UNCHANGED <<objects, late, acked>>

Next ==
    \/ \E c \in Callers :
          \/ \E x \in Contents : PutStart(c, x)
          \/ PutCreated(c) \/ PutRefused(c) \/ PutUnanswered(c) \/ PutFails(c)
          \/ ReadBack(c) \/ ReadBackFails(c)
          \/ \E d \in Digests : Get(c, d)
          \/ GetFails(c)
    \/ \E x \in late : LatePut(x)

Spec == Init /\ [][Next]_vars

-----------------------------------------------------------------------------
\* The variables have their types, and a put under way, or ended by a
\* collision, is a put of some bytes.
TypeOK ==
    /\ objects \in [Digests -> Contents \cup {None}]
    /\ pc \in [Callers -> {"idle", "putting", "checking"}]
    /\ content \in [Callers -> Contents \cup {None}]
    /\ \A c \in Callers :
          pc[c] # "idle" \/ result[c].kind = "ArtifactCollisionError" => content[c] # None
    /\ late \subseteq Contents
    /\ result \in [Callers -> Outcomes]
    /\ acked \subseteq Contents

\* Once put has returned a reference to some bytes, those bytes are what the
\* reference leads to, whoever else puts what and however late: a reference is
\* never acknowledged for two different contents, not even when they collide.
AckedRetrievable == \A x \in acked : objects[DigestOf[x]] = x

\* No artifact is overwritten: not by a late put, not by colliding bytes.
ObjectsImmutable ==
    [][\A d \in Digests : objects[d] # None => objects'[d] = objects[d]]_vars

\* What a caller got stays the truth about its reference: the bytes have the
\* digest they were asked for, and are those of every put acknowledged for it.
ReadsAgreeWithPuts ==
    \A c \in Callers : result[c].kind = "bytes" =>
        /\ objects[DigestOf[result[c].bytes]] = result[c].bytes
        /\ \A x \in acked : DigestOf[x] = DigestOf[result[c].bytes] => x = result[c].bytes

\* A caller told of a collision met other bytes, never a copy of its own that
\* an unanswered put, a late put or another caller left behind; and the bytes a
\* put was refused for are still there when it looks.
CollisionsAreReal ==
    \A c \in Callers :
        /\ result[c].kind = "ArtifactCollisionError" =>
              objects[DigestOf[content[c]]] \notin {None, content[c]}
        /\ pc[c] = "checking" => ~KeyFree(content[c])
=============================================================================
