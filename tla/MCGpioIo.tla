------------------------------ MODULE MCGpioIo ------------------------------
(* GpioIo on two pins, one of each boot group, with one input mode. *)
EXTENDS GpioIo
=============================================================================
