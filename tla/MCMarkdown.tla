----------------------------- MODULE MCMarkdown -----------------------------
(***************************************************************************)
(* Markdown for TLC: every article of up to MaxLines lines, of whatever    *)
(* kinds and in whatever order.                                            *)
(***************************************************************************)
EXTENDS Markdown

AllKinds ==
  {"blank", "text", "bang", "url", "fence", "info", "heading", "quote", "bare", "dashes",
   "underscores", "image", "images", "bullet", "number", "hyphens", "tag", "bracketed", "frame", "foreign"}
=============================================================================
