----------------------------- MODULE MCKnowledge ------------------------------
(***************************************************************************)
(* The components that keep what the system knows: the in-memory work      *)
(* store, workspaces, memory documents, learning, evolved strategies, the  *)
(* compacted history of a session and shared states.  They share no state, *)
(* so a behaviour follows one of them, chosen at the start, and leaves the *)
(* others in their initial states.                                         *)
(***************************************************************************)
EXTENDS MemoryStore, Workspace, Documents, Learning, Evolution, Compaction, SharedState

VARIABLE which

\* Two rows of one session, the second a child of the first, which may be revised.
OneSession == [w \in MWork |-> "s"]
ChainOfTwo == [w \in MWork |-> w - 1]
NoDependency == [w \in MWork |-> {}]
FirstRevised == <<1, 0>>

all == <<which, mvars, wvars, dvars, lvars, evars, cvars, svars>>

KnowledgeInit ==
  /\ which \in {"store", "workspace", "documents", "learning", "evolution", "compaction", "shared"}
  /\ StoreInit /\ WorkspaceInit /\ DocumentsInit /\ LearningInit
  /\ EvolutionInit /\ CompactionInit /\ SharedInit
  /\ which # "compaction" => asynchronous

KnowledgeNext ==
  /\ UNCHANGED which
  /\ \/ which = "store" /\ StoreNext /\ UNCHANGED <<wvars, dvars, lvars, evars, cvars, svars>>
     \/ which = "workspace" /\ WorkspaceNext /\ UNCHANGED <<mvars, dvars, lvars, evars, cvars, svars>>
     \/ which = "documents" /\ DocumentsNext /\ UNCHANGED <<mvars, wvars, lvars, evars, cvars, svars>>
     \/ which = "learning" /\ LearningNext /\ UNCHANGED <<mvars, wvars, dvars, evars, cvars, svars>>
     \/ which = "evolution" /\ EvolutionNext /\ UNCHANGED <<mvars, wvars, dvars, lvars, cvars, svars>>
     \/ which = "compaction" /\ CompactionNext /\ UNCHANGED <<mvars, wvars, dvars, lvars, evars, svars>>
     \/ which = "shared" /\ SharedNext /\ UNCHANGED <<mvars, wvars, dvars, lvars, evars, cvars>>

KnowledgeSpec == KnowledgeInit /\ [][KnowledgeNext]_all
=============================================================================
