------------------------------ MODULE MailBlobs ------------------------------
(***************************************************************************)
(* The request preparation of test_jmap_mail_create in                     *)
(* src/components/store_test/src/jmap_mail_set.rs: every property value of *)
(* the Email/set create object read from a .json file is walked by         *)
(* store_blobs, which uploads the text of every nested "blobId" to the     *)
(* store and puts the JMAP id of the new blob in its place.                *)
(*                                                                         *)
(* A JSON value is a record: [str |-> c], [null |-> TRUE], [obj |-> f]     *)
(* with f a function from keys to values, or [arr |-> s] with s a          *)
(* sequence of values.                                                     *)
(***************************************************************************)
EXTENDS Naturals, Sequences

CONSTANTS
    Contents,    \* the texts a "blobId" of a request file can hold
    Keys,        \* the keys of nested objects ("blobId" among them)
    Props        \* the property names of the create object

ASSUME BlobsAssumption ==
    /\ Contents \subseteq STRING
    /\ "blobId" \in Keys
    /\ Keys \subseteq STRING
    /\ Props \subseteq STRING

Null == [null |-> TRUE]
Str(c) == [str |-> c]

\* upload_blob(...).to_jmap_string(): the id of the blob holding c.
BlobIdOf(c) == "blob:" \o c

\* The values of a request file, nested two objects or arrays deep.
Objects(S) == {[obj |-> f] : f \in UNION {[K -> S] : K \in SUBSET Keys}}
Arrays(S) == {[arr |-> s] : s \in {<<>>} \cup [1..1 -> S]}
Leaves == {Str(c) : c \in Contents} \cup {Null}
Values1 == Leaves \cup Objects(Leaves) \cup Arrays(Leaves)
Values2 == Leaves \cup Objects(Values1) \cup Arrays(Values1)

\* The create object: property names to values.
Requests == UNION {[K -> Values2] : K \in SUBSET Props}

\* The result of the walk: the value and the texts uploaded, or a panic.
Panicked == [panic |-> "blobId is not a string"]

-----------------------------------------------------------------------------
(* jmap_mail_set.rs                                                        *)

\* Walks of a sequence of values and of an object's entries, threading the
\* set of uploaded texts; a panic ends the walk.
RECURSIVE StoreBlobs(_)
RECURSIVE WalkEntries(_, _, _)
RECURSIVE WalkItems(_, _)

\* Mutant: arrays are left as they are.
StoreBlobsNoArrays(v) ==
    IF "obj" \in DOMAIN v THEN WalkEntries(v.obj, DOMAIN v.obj, TRUE)
    ELSE [value |-> v, uploaded |-> {}]

\* Lines 34-59: store_blobs. An object's "blobId" must be a string, which is
\* uploaded and replaced by the blob's id (38-46); any other entry, and
\* every item of an array, is walked (48, 52-56); other values stay.
StoreBlobs(v) ==
    IF "obj" \in DOMAIN v THEN WalkEntries(v.obj, DOMAIN v.obj, TRUE)
    ELSE IF "arr" \in DOMAIN v THEN WalkItems(v.arr, Len(v.arr))
    ELSE [value |-> v, uploaded |-> {}]

\* The entries K of object f; nested says "blobId" is looked at.
WalkEntries(f, K, nested) ==
    IF K = {} THEN [value |-> [obj |-> f], uploaded |-> {}]
    ELSE LET k == CHOOSE k \in K : TRUE
             here == IF ~nested \/ k # "blobId" THEN StoreBlobs(f[k])
                     ELSE IF "str" \in DOMAIN f[k]
                          THEN [value |-> Str(BlobIdOf(f[k].str)), uploaded |-> {f[k].str}]
                          ELSE Panicked
             rest == WalkEntries([f EXCEPT ![k] = IF here = Panicked THEN f[k] ELSE here.value],
                                 K \ {k}, nested)
         IN IF here = Panicked \/ rest = Panicked THEN Panicked
            ELSE [value |-> rest.value, uploaded |-> here.uploaded \cup rest.uploaded]

WalkItems(s, n) ==
    IF n = 0 THEN [value |-> [arr |-> s], uploaded |-> {}]
    ELSE LET here == StoreBlobs(s[n])
             rest == WalkItems([s EXCEPT ![n] = IF here = Panicked THEN s[n] ELSE here.value],
                               n - 1)
         IN IF here = Panicked \/ rest = Panicked THEN Panicked
            ELSE [value |-> rest.value, uploaded |-> here.uploaded \cup rest.uploaded]

\* Lines 155-161: store_blobs on the value of every property of the create
\* object (the property names themselves are not looked at).
PrepareCreate(req) ==
    WalkEntries(req, DOMAIN req, FALSE)

-----------------------------------------------------------------------------

VARIABLES
    request,     \* the create object read from the .json file
    prepared,    \* the object passed to mail_set, or a panic
    uploaded     \* the texts stored by upload_blob

vars == <<request, prepared, uploaded>>

NotYet == [pending |-> TRUE]

Init ==
    /\ request \in Requests
    /\ prepared = NotYet
    /\ uploaded = {}

\* Lines 143-161: the file is read and every property value walked.
Prepare ==
    /\ prepared = NotYet
    /\ LET r == PrepareCreate(request) IN
       IF r = Panicked THEN prepared' = Panicked /\ UNCHANGED uploaded
       ELSE prepared' = [obj |-> r.value.obj] /\ uploaded' = r.uploaded
    /\ UNCHANGED request

Done ==
    /\ prepared # NotYet
    /\ UNCHANGED vars

Next == Prepare \/ Done

Spec == Init /\ [][Next]_vars

-----------------------------------------------------------------------------
(* Properties                                                              *)

\* The reference: the paths of a value (keys of objects, "#1" for the item
\* of an array), the value at a path, and the paths store_blobs must turn
\* into blob ids: a nested "blobId" with no "blobId" between it and the
\* property it belongs to.
RECURSIVE Paths(_)
Paths(v) ==
    {<<>>} \cup
    IF "obj" \in DOMAIN v THEN UNION {{<<k>> \o p : p \in Paths(v.obj[k])} : k \in DOMAIN v.obj}
    ELSE IF "arr" \in DOMAIN v THEN UNION {{<<"#1">> \o p : p \in Paths(v.arr[i])} : i \in DOMAIN v.arr}
    ELSE {}

RECURSIVE At(_, _)
At(v, p) ==
    IF p = <<>> THEN v
    ELSE IF "obj" \in DOMAIN v THEN At(v.obj[Head(p)], Tail(p))
    ELSE At(v.arr[1], Tail(p))

IsLeaf(v) == "str" \in DOMAIN v \/ "null" \in DOMAIN v

BlobPaths(v) ==
    {p \in Paths(v) : /\ Len(p) >= 2
                      /\ p[Len(p)] = "blobId"
                      /\ \A i \in 2..(Len(p) - 1) : p[i] # "blobId"}

\* What a request file prepares to: mail_set sees every blob id where the
\* file had a text, the store holds exactly those texts, and every other
\* value is the file's; a "blobId" that is not a string panics the test.
PreparedAsFile ==
    LET req == [obj |-> request]
        B == BlobPaths(req)
    IN prepared # NotYet =>
         IF \E p \in B : "str" \notin DOMAIN At(req, p)
         THEN prepared = Panicked
         ELSE /\ prepared # Panicked
              /\ Paths(prepared) = Paths(req)
              /\ uploaded = {At(req, p).str : p \in B}
              /\ \A p \in Paths(req) :
                   IsLeaf(At(req, p)) =>
                     At(prepared, p) = IF p \in B THEN Str(BlobIdOf(At(req, p).str))
                                       ELSE At(req, p)

=============================================================================
