-------------------------- MODULE MCKnowledgeBase --------------------------
(* The chunkers and the knowledge base side by side: of a document the     *)
(* stores see no more than how many chunks it has.                         *)
EXTENDS Chunking, KnowledgeBase

MCInit == ChunkInit /\ KnowledgeInit

MCNext ==
    \/ /\ version = 0 /\ stage = "idle" /\ shown = NoAnswer
       /\ command = "idle"
       /\ ChunkDocument
       /\ UNCHANGED knowledgeVars
    \/ /\ document = NoDocument
       /\ KnowledgeStep
       /\ UNCHANGED chunkVars

MCSpec ==
    /\ MCInit /\ [][MCNext]_<<chunkVars, knowledgeVars>>
    /\ WF_knowledgeVars(BecomesQueryable)
=============================================================================
