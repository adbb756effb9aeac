---------------------------- MODULE MCClipboard ----------------------------
(* Small instances of Clipboard for TLC. *)
EXTENDS Clipboard
============================================================================
