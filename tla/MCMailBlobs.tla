----------------------------- MODULE MCMailBlobs -----------------------------
(* MailBlobs on one blob text, a "blobId" and one other key in nested      *)
(* objects, and two properties of the create object.                       *)
EXTENDS MailBlobs
=============================================================================
