-------------------------- MODULE MCUploadFinalizer --------------------------
(* One upload, and the requests that race its finalizer. *)
EXTENDS UploadFinalizer
=============================================================================
