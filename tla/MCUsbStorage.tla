---------------------------- MODULE MCUsbStorage ----------------------------
(* Small instances of UsbStorage for TLC. *)
EXTENDS UsbStorage

Everything == Verbs \cup Troubles
OneVerb == <<"verb1">>
==============================================================================
