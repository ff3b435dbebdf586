------------------------------ MODULE ImageUpdate ------------------------------
(***************************************************************************)
(* What components/ota_core/include/ota_core.h promises of a firmware      *)
(* update, whichever transport it comes by: it is one transaction.  One    *)
(* owner at a time opens it and writes the image in order; the image is    *)
(* committed when it is whole, or discarded; and after a commit there is   *)
(* nothing but the restart.                                                *)
(***************************************************************************)
EXTENDS Naturals, Sequences

CONSTANTS
  Owner,    (* who may update: the HTTP server, the CDC receiver           *)
  Nobody,   (* no update is under way                                      *)
  Size      (* the chunks of an image                                      *)

VARIABLES
  owner,    (* whose update it is                                          *)
  image,    (* what it has written: whose chunk, and the chunk's number    *)
  booted    (* whether the next boot is into it                            *)

updateVars == <<owner, image, booted>>

UpdateInit == owner = Nobody /\ image = << >> /\ booted = FALSE

Open(o) ==
  /\ owner = Nobody
  /\ owner' = o
  /\ UNCHANGED <<image, booted>>

Extend ==
  /\ owner \in Owner /\ ~booted
  /\ image' = Append(image, <<owner, Len(image) + 1>>)
  /\ UNCHANGED <<owner, booted>>

Discard ==
  /\ owner \in Owner /\ ~booted
  /\ owner' = Nobody /\ image' = << >>
  /\ UNCHANGED booted

Commit ==
  /\ owner \in Owner /\ Len(image) = Size
  /\ booted' = TRUE
  /\ UNCHANGED <<owner, image>>

Reboot ==
  /\ booted
  /\ owner' = Nobody /\ image' = << >> /\ booted' = FALSE

UpdateNext ==
  \/ \E o \in Owner : Open(o)
  \/ Extend \/ Discard \/ Commit \/ Reboot

UpdateSpec == UpdateInit /\ [][UpdateNext]_updateVars
=============================================================================
