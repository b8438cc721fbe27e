--------------------------- MODULE MCConversation ---------------------------
(* Conversation for TLC: the requests are interchangeable until each draws   *)
(* its kind, and so are the providers of one modality.                       *)
EXTENDS Conversation, TLC

CONSTANTS TextProviders

ASSUME TextProviders = Providers \ ImageProviders

Symmetry ==
    Permutations(Requests) \cup Permutations(TextProviders)
        \cup Permutations(ImageProviders)

=============================================================================
