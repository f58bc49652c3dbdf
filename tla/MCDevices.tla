------------------------------- MODULE MCDevices -------------------------------
(***************************************************************************)
(* Instances of what the kernel and its threads use, for TLC: the two      *)
(* buffers of the debug channel (RttUp, RttDown), the serial flash (Sfud), *)
(* the SPI driver (DrvSpi) and the heap (RtHeap).  They share nothing; a   *)
(* behaviour is one of a few settings, chosen at the start, and the        *)
(* variables of the other components stay.                                 *)
(***************************************************************************)
EXTENDS RttUp, RttDown, DrvSpi, Sfud, RtHeap, TLC

CONSTANTS a, b, v,   \* model values: threads
          Settings   \* the settings of this run

VARIABLE setting

allVars  == << setting, vars, downVars, flashVars, spiVars, heapVars >>

\* up: short messages and one that fills the buffer.  writers: two threads write.
MCMessage == {<< 1 >>, << 2, 3 >>, << 3, 1, 2 >>, << 1, 2, 3, 1, 2 >>}

\* down: what is typed at once; the last message wraps around in most places.
MCTyping == {<< 1 >>, << 2, 3 >>, << 3, 1, 2, 1 >>}

MCPayload == [t \in {a, b} |-> << 1, 2, 2, 1, 2, 1, 1, 2 >>]

\* contents: ranges within a page, over the ends of pages and sectors, unaligned,
\* empty, and beyond the end.  faults: messages fail, and the chip may be slow.
\* failed, slow: the same, one at a time.
FlashBounds ==
  [contents |-> [ranges |-> {<< 0, 4 >>, << 1, 4 >>, << 4, 1 >>, << 2, 0 >>,
                             << 6, 4 >>},
                 calls |-> 3, faults |-> 0, slow |-> FALSE],
   faults   |-> [ranges |-> {<< 3, 2 >>},
                 calls |-> 3, faults |-> 2, slow |-> TRUE],
   failed   |-> [ranges |-> {<< 1, 4 >>, << 4, 1 >>},
                 calls |-> 3, faults |-> 1, slow |-> FALSE],
   slow     |-> [ranges |-> {<< 1, 4 >>, << 4, 1 >>},
                 calls |-> 3, faults |-> 0, slow |-> TRUE]]

\* heap: two threads.  aligned: one, with aligned blocks and kernel objects.
\* object: two, with kernel objects.  wrapped: a request near 2^32.
HeapBounds ==
  [heap    |-> [threads |-> {a, b}, sizes |-> {1, 3},
                alignments |-> {}, blocks |-> 3, objects |-> {}],
   aligned |-> [threads |-> {a}, sizes |-> {1, 3},
                alignments |-> {3}, blocks |-> 3, objects |-> {5}],
   object  |-> [threads |-> {a, b}, sizes |-> {1},
                alignments |-> {}, blocks |-> 3, objects |-> {3}],
   wrapped |-> [threads |-> {a}, sizes |-> {63},
                alignments |-> {}, blocks |-> 3, objects |-> {}]]

OnFlash == Settings \cap DOMAIN FlashBounds
OnHeap  == Settings \cap DOMAIN HeapBounds

MCRanges == UNION {FlashBounds[s].ranges : s \in OnFlash}

Flash(s) == INSTANCE Sfud WITH
  Ranges <- FlashBounds[s].ranges, MaxCalls <- FlashBounds[s].calls,
  MaxFaults <- FlashBounds[s].faults, Slow <- FlashBounds[s].slow

Heap(s) == INSTANCE RtHeap WITH
  Thread <- HeapBounds[s].threads, Sizes <- HeapBounds[s].sizes, Alignments <- HeapBounds[s].alignments,
  MaxBlocks <- HeapBounds[s].blocks, ObjectSizes <- HeapBounds[s].objects

ASSUME DevicesAssumption ==
  /\ DownAssumption
  /\ SfudAssumption
  /\ \A s \in OnFlash : Flash(s)!SfudAssumption
  /\ SpiAssumption
  /\ \A s \in OnHeap : Heap(s)!HeapAssumption

NoUp == Init /\ buf[0] = 1 /\ \A w \in Writer : msg[w] = << 1 >>
NoDown == DownInit /\ ring[0] = 1
NoHeap == HeapInit

MCInit ==
  /\ setting \in Settings
  /\ \/ /\ setting = "up" /\ Init
        /\ NoDown /\ FlashInit /\ SpiInit /\ NoHeap
     \/ /\ setting = "down" /\ DownInit
        /\ NoUp /\ FlashInit /\ SpiInit /\ NoHeap
     \/ /\ \E s \in OnFlash : setting = s /\ Flash(s)!FlashInit
        /\ NoUp /\ NoDown /\ SpiInit /\ NoHeap
     \/ /\ setting = "spi" /\ SpiInit
        /\ NoUp /\ NoDown /\ FlashInit /\ NoHeap
     \/ /\ \E s \in OnHeap : setting = s /\ Heap(s)!HeapInit
        /\ NoUp /\ NoDown /\ FlashInit /\ SpiInit

MCNext ==
  \/ /\ setting = "up" /\ Next
     /\ UNCHANGED << setting, downVars, flashVars, spiVars, heapVars >>
  \/ /\ setting = "down" /\ DownNext
     /\ UNCHANGED << setting, vars, flashVars, spiVars, heapVars >>
  \/ /\ \E s \in OnFlash : setting = s /\ Flash(s)!FlashNext
     /\ UNCHANGED << setting, vars, downVars, spiVars, heapVars >>
  \/ /\ setting = "spi" /\ SpiNext
     /\ UNCHANGED << setting, vars, downVars, flashVars, heapVars >>
  \/ /\ \E s \in OnHeap : setting = s /\ Heap(s)!HeapNext
     /\ UNCHANGED << setting, vars, downVars, flashVars, spiVars >>

MCSpec == MCInit /\ [][MCNext]_allVars

-----------------------------------------------------------------------------

\* The threads a and b are interchangeable.
Symmetry == Permutations({a, b})
=============================================================================
