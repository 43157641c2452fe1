--------------------------- MODULE MCVerification ---------------------------
(* Verification for TLC: a page with a browser check of its own and a       *)
(* server, a logo that needs an image, and a handbook somebody reads.       *)
EXTENDS Verification

MCKind == [speech |-> "unsupported", blank |-> "empty", lost |-> "browser", lint |-> "command",
           smoke |-> "browser"]

MCCriterionIds == [c \in DOMAIN MCKind |-> IF c \in {"smoke", "lost"} THEN {"page"} ELSE {}]
=============================================================================
