------------------------- MODULE MCWindowLifecycle -------------------------
(* The instance TLC checks: a second window from the Dock, documents to open. *)
EXTENDS WindowLifecycle

TwoPaths == {"a.docx", "b.pptx"}
=============================================================================
