---------------------------- MODULE ImportExport ----------------------------
(***************************************************************************)
(* A node writes some of its blocks to a file, with the Merkle layers of   *)
(* their states, and another node reads the file into its store, where its *)
(* other tasks may be storing layers and blocks as well.  Either may stop  *)
(* at any time; a file that was not flushed ends anywhere.                 *)
(*                                                                         *)
(* A layer's hash stands for the layer, of which we look at its children.  *)
(***************************************************************************)
EXTENDS Integers, Sequences, FiniteSets, SequencesExt

CONSTANTS
  Layer,            \* hashes of Merkle layers
  ChildrenOf,       \* the children of each
  ExportChain,      \* the exporting node's blocks, from the genesis on: the
                    \* layers of the framework's state, the application's state
                    \* and the logs; who signed it; the processor after it
  FirstProcessor    \* the processor of the genesis information

ASSUME ImportExportAssumption ==
  /\ ChildrenOf \in [Layer -> SUBSET Layer] /\ \A l \in Layer : IsFiniteSet(ChildrenOf[l])
  /\ ExportChain \in Seq([framework : Layer, app : Layer, logs : Layer,
                          signer : STRING, processor : STRING])

VARIABLES
  file,        \* the layers and blocks in the file
  torn,        \* whether it ends within what would come next
  exporter,    \* how the export stands
  curr, until, \* the block being exported, and the last one
  work,        \* work_queue
  written,     \* written_layers
  importer,    \* how the import of the file stands, or why it has failed
  position,    \* what is read next
  hashes,      \* the layers of this file that have been read
  layersIn,    \* layers in the importing node's store
  blocksIn,    \* blocks in its store
  memory       \* the block that is its current one, 0 when there is none

exportVars == <<file, torn, exporter, curr, until, work, written>>
readerVars == <<importer, position, hashes>>
nodeVars == <<layersIn, blocksIn, memory>>
importExportVars == <<exportVars, readerVars, nodeVars>>

LayerRecord(l) == [kind |-> "layer", layer |-> l]
BlockRecord(h) == [kind |-> "block", block |-> h]
ToProcess(l) == [do |-> "process", layer |-> l]
ToWrite(l) == [do |-> "write", layer |-> l]

StateOf(h) == {ExportChain[h].framework, ExportChain[h].app, ExportChain[h].logs}
WorkFor(h) ==
  <<ToProcess(ExportChain[h].framework), ToProcess(ExportChain[h].app),
    ToProcess(ExportChain[h].logs)>>

Reading == importer \in {"reading", "adding"}

-----------------------------------------------------------------------------
\* The export.

\* The file is created, or emptied when there is one.
ExportStarts(first, last) ==
  /\ exporter # "running" /\ ~Reading
  /\ exporter' = "running" /\ curr' = first /\ until' = last
  /\ file' = << >> /\ torn' = FALSE /\ written' = {}
  /\ work' = WorkFor(first)
  /\ importer' = "idle"
  /\ UNCHANGED <<position, hashes, nodeVars>>

Working(do) == exporter = "running" /\ work # << >> /\ Last(work).do = do

ExportProcesses_ParentOnTop ==
  /\ Working("process")
  /\ LET l == Last(work).layer
         children == SetToSeq(ChildrenOf[l] \ written)
     IN  work' = Front(work) \o
                   IF l \in written THEN << >>
                   ELSE [i \in DOMAIN children |-> ToProcess(children[i])] \o <<ToWrite(l)>>
  /\ UNCHANGED <<file, torn, exporter, curr, until, written, readerVars, nodeVars>>

\* A layer that is written again is no work; another one is put back, to be
\* written when its children have been.
ExportProcesses ==
  /\ Working("process")
  /\ LET l == Last(work).layer
         children == SetToSeq(ChildrenOf[l] \ written)
     IN  work' = Front(work) \o
                   IF l \in written THEN << >>
                   ELSE <<ToWrite(l)>> \o [i \in DOMAIN children |-> ToProcess(children[i])]
  /\ UNCHANGED <<file, torn, exporter, curr, until, written, readerVars, nodeVars>>

\* A layer whose child is not written is a logic error.
ExportWrites ==
  /\ Working("write")
  /\ work' = Front(work)
  /\ LET l == Last(work).layer
     IN  \/ l \in written /\ UNCHANGED <<file, exporter, written>>
         \/ /\ l \notin written
            /\ IF ChildrenOf[l] \subseteq written
               THEN /\ file' = Append(file, LayerRecord(l))
                    /\ written' = written \cup {l}
                    /\ UNCHANGED exporter
               ELSE exporter' = "logicError" /\ UNCHANGED <<file, written>>
  /\ UNCHANGED <<torn, curr, until, readerVars, nodeVars>>

\* The block follows its state; then the next one's turn comes.
ExportsBlock ==
  /\ exporter = "running" /\ work = << >>
  /\ file' = Append(file, BlockRecord(curr))
  /\ \/ /\ curr = until
        /\ exporter' = "done" /\ UNCHANGED <<curr, work>>
     \/ /\ curr < until
        /\ curr' = curr + 1 /\ work' = WorkFor(curr + 1) /\ UNCHANGED exporter
  /\ UNCHANGED <<torn, until, written, readerVars, nodeVars>>

\* The node stops, or does not have the next block: what was not flushed is lost.
ExportBreaksOff ==
  /\ exporter = "running"
  /\ \E n \in 0..Len(file) : file' = SubSeq(file, 1, n)
  /\ torn' \in BOOLEAN /\ exporter' = "stopped" /\ work' = << >>
  /\ UNCHANGED <<curr, until, written, readerVars, nodeVars>>

-----------------------------------------------------------------------------
\* The import.

ImportStarts ==
  /\ exporter \in {"done", "stopped"} /\ ~Reading
  /\ importer' = "reading" /\ position' = 1 /\ hashes' = {}
  /\ UNCHANGED <<exportVars, nodeVars>>

Reads(kind) ==
  importer = "reading" /\ position \in DOMAIN file /\ file[position].kind = kind

ImportFails(reason) == importer' = reason /\ UNCHANGED <<position, hashes, nodeVars>>

ReadOn == importer' = "reading" /\ position' = position + 1

Takes(l) ==
  /\ layersIn' = layersIn \cup {l} /\ hashes' = hashes \cup {l}
  /\ ReadOn
  /\ UNCHANGED <<blocksIn, memory>>

ImportsLayer ==
  /\ Reads("layer")
  /\ LET l == file[position].layer
     IN  \/ ~(ChildrenOf[l] \subseteq hashes) /\ ImportFails("childNotWritten")
         \/ /\ ChildrenOf[l] \subseteq hashes
            /\ IF ChildrenOf[l] \subseteq layersIn THEN Takes(l)
               ELSE ImportFails("childNotStored")
  /\ UNCHANGED exportVars

\* has_block
ImportLooks ==
  /\ Reads("block")
  /\ IF file[position].block \in blocksIn
     THEN ReadOn /\ UNCHANGED <<hashes, nodeVars>>
     ELSE importer' = "adding" /\ UNCHANGED <<position, hashes, nodeVars>>
  /\ UNCHANGED exportVars

\* The processor that the node knows of is that of its current block, which the
\* import does not move.
Current == IF memory = 0 THEN FirstProcessor ELSE ExportChain[memory].processor
CanAddWithState(h) ==
  h \notin blocksIn /\ ExportChain[h].signer = Current /\ StateOf(h) \subseteq layersIn

\* add_block_with_state
ImportAdds ==
  /\ importer = "adding"
  /\ LET h == file[position].block
     IN  \/ /\ CanAddWithState(h)
            /\ blocksIn' = blocksIn \cup {h}
            /\ ReadOn /\ UNCHANGED <<hashes, layersIn, memory>>
         \/ h \in blocksIn /\ ImportFails("present")
         \/ /\ h \notin blocksIn
            /\ ExportChain[h].signer # Current /\ ImportFails("otherProcessor")
         \/ /\ h \notin blocksIn /\ ExportChain[h].signer = Current
            /\ ~(StateOf(h) \subseteq layersIn) /\ ImportFails("stateNotStored")
  /\ UNCHANGED exportVars

\* The highest block that is stored becomes the current one, unless the node is
\* past it.
Resyncs ==
  memory' = IF blocksIn = {} THEN memory
            ELSE LET latest == CHOOSE h \in blocksIn : \A g \in blocksIn : g <= h
                 IN  IF memory < latest THEN latest ELSE memory

ImportEnds ==
  /\ importer = "reading" /\ position > Len(file)
  /\ IF torn THEN ImportFails("torn")
     ELSE importer' = "done" /\ Resyncs /\ UNCHANGED <<position, hashes, layersIn, blocksIn>>
  /\ UNCHANGED exportVars

\* The importing node is restarted; it begins with its latest block.
ImporterRestarts ==
  /\ importer' = "idle" /\ Resyncs
  /\ UNCHANGED <<exportVars, position, hashes, layersIn, blocksIn>>

-----------------------------------------------------------------------------
\* Other tasks of the importing node, its sync manager for one.

OthersStoreLayer(l) ==
  /\ l \notin layersIn /\ ChildrenOf[l] \subseteq layersIn
  /\ layersIn' = layersIn \cup {l}
  /\ UNCHANGED <<exportVars, readerVars, blocksIn, memory>>

OthersAddBlock(h) ==
  /\ CanAddWithState(h)
  /\ blocksIn' = blocksIn \cup {h}
  /\ UNCHANGED <<exportVars, readerVars, layersIn, memory>>

OthersResync ==
  /\ Resyncs /\ UNCHANGED <<exportVars, readerVars, layersIn, blocksIn>>

-----------------------------------------------------------------------------

ImportExportInit ==
  /\ file = << >> /\ torn = FALSE
  /\ exporter = "idle" /\ curr = 1 /\ until = 1 /\ work = << >> /\ written = {}
  /\ importer = "idle" /\ position = 1 /\ hashes = {}
  /\ layersIn = {} /\ blocksIn = {} /\ memory = 0

ImportExportNext ==
  \/ \E first, last \in DOMAIN ExportChain : first <= last /\ ExportStarts(first, last)
  \/ ExportProcesses \/ ExportWrites \/ ExportsBlock \/ ExportBreaksOff
  \/ ImportStarts \/ ImportsLayer \/ ImportLooks \/ ImportAdds \/ ImportEnds
  \/ ImporterRestarts
  \/ \E l \in Layer : OthersStoreLayer(l)
  \/ \E h \in DOMAIN ExportChain : OthersAddBlock(h)
  \/ OthersResync

ImportExportSpec == ImportExportInit /\ [][ImportExportNext]_importExportVars

-----------------------------------------------------------------------------

\* Every layer and every block of a file that an export has begun, whatever has
\* become of the export, can be imported: what it needs comes before it.  When
\* the import succeeds the node has all blocks of the file, and its current one
\* is not below them.
FileIsImportable ==
  /\ exporter # "logicError"
  /\ importer \notin {"childNotWritten", "childNotStored", "stateNotStored"}
  /\ importer = "done" => \A i \in DOMAIN file :
       file[i].kind = "block" => file[i].block \in blocksIn /\ file[i].block <= memory

\* The importing node has all children of its layers, and the states of all of
\* its blocks.
StoreKeptComplete ==
  /\ \A l \in layersIn : ChildrenOf[l] \subseteq layersIn
  /\ \A h \in blocksIn : StateOf(h) \subseteq layersIn

\* What one node exports another one can import, whatever stops when and whatever
\* else the other stores meanwhile: an import fails only where the file is torn,
\* at a block that another task has just added, or at one that was not signed by
\* the processor that the node's current block knows of.  The store is complete
\* at any time (import_export.rs export_block, import_blocks_from).
ImportIsSound == FileIsImportable /\ StoreKeptComplete
=============================================================================
