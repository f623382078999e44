-------------------------- MODULE MCMessageParser --------------------------
(***************************************************************************)
(* Descriptors for TLC: up to three lines, with and without a close tag.   *)
(***************************************************************************)
EXTENDS MessageParser

MCDescriptors ==
    {d \in [close_tag: BOOLEAN, line_count: 0..3] :
         d.close_tag \/ d.line_count > 0}
=============================================================================
