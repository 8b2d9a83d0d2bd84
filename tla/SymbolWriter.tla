---------------------------- MODULE SymbolWriter ----------------------------
(***************************************************************************)
(* How the symbols of a tile are written (encode_tile, ContextWriter and   *)
(* its CDFContextLog in context/cdf_context.rs, the Writers of ec.rs).     *)
(* Blocks go to a Recorder and adapt the CDFs at once.  Mode decision      *)
(* tries them out: it takes checkpoints, writes, and rolls the CDFs and    *)
(* the Recorder back.  The Recorder is replayed into the Encoder when its  *)
(* superblock leaves the queue; in front of it, parameters of the loop     *)
(* filters are written to the Encoder directly.                            *)
(*                                                                         *)
(* CDFContext is memory: a CDF has an offset and a length.  The log saves  *)
(* CDF_LEN_SMALL or CDF_LEN_MAX words from the offset on, whatever the     *)
(* length, so an entry may hold words of the CDFs that follow.             *)
(***************************************************************************)
EXTENDS RangeCoder

CONSTANTS
  CDF_LEN_SMALL, CDF_LEN_MAX,
  Layout,       \* name -> offset and length of each CDF
  InitialFc,    \* the words of CDFContext::new
  DirectCdfs,   \* the CDFs of write_lrf
  Symbols,      \* the pairs <<CDF, symbol>> that are written
  MaxSymbols,   \* symbols in the tile
  MaxMarks      \* nested checkpoints

Small(c) == Layout[c].len <= CDF_LEN_SMALL

\* Words of a CDF, and the words that the log saves for it.
OwnWords(c) == Layout[c].offset .. Layout[c].offset + Layout[c].len - 1
LoggedWords(c) ==
  Layout[c].offset ..
    Layout[c].offset + (IF Small(c) THEN CDF_LEN_SMALL ELSE CDF_LEN_MAX) - 1

\* The order of the fields and the padding of CDFContext and NMVContext: CDFs
\* do not overlap, and an entry of the log saves no words of CDFs whose
\* entries are in the other part of the log.
ASSUME LayoutAssumption ==
  /\ {CDF_LEN_SMALL, CDF_LEN_MAX} \subseteq Nat
  /\ InitialFc \in [DOMAIN InitialFc -> Nat]
  /\ Layout \in [DOMAIN Layout -> [offset : Nat, len : Nat]]
  /\ \A c \in DOMAIN Layout :
       LoggedWords(c) \subseteq DOMAIN InitialFc /\ Layout[c].len <= CDF_LEN_MAX
  /\ \A c, d \in DOMAIN Layout :
       c # d => /\ OwnWords(c) \cap OwnWords(d) = {}
                /\ Small(c) # Small(d) => LoggedWords(c) \cap OwnWords(d) = {}

\* The tables of entropymode.rs and token_cdfs.rs as util/cdf.rs stores them
\* (32768 minus values that rise, then zeros), and what reset_counts leaves of
\* the CDFs of an earlier frame: 2 to 16 words of 15 bits, which fall from symbol
\* to symbol and end with a count of no adaptations.
ASSUME TablesAssumption ==
  \A c \in DOMAIN Layout :
    LET n == Layout[c].len
        word(i) == InitialFc[Layout[c].offset + i - 1]
    IN /\ 2 <= n /\ n <= 16 /\ word(n) = 0
       /\ \A i \in 1 .. n - 1 : word(i) < 2^15
       /\ \A i, j \in 1 .. n - 1 : i <= j => word(i) >= word(j)

ASSUME WriterAssumption ==
  /\ DirectCdfs \subseteq DOMAIN Layout
  /\ \A p \in Symbols : p[1] \in DOMAIN Layout /\ p[2] \in 0 .. Layout[p[1]].len - 1
  /\ {MaxSymbols, MaxMarks} \subseteq Nat

VARIABLES
  fc,       \* the words of the CDFContext
  fc_log,   \* its log: `small` and `large` entries
  rec,      \* the Recorder of the superblock
  pending,  \* the symbols recorded
  enc,      \* the Encoder of the tile
  stored,  \* the symbols stored in the Encoder
  marks,    \* checkpoints, the innermost last
  out       \* the bytes of the tile, when it is done

swVars == <<fc, fc_log, rec, pending, enc, stored, marks, out>>

EmptyLog == [small |-> <<>>, large |-> <<>>]

SwInit ==
  /\ fc = InitialFc /\ fc_log = EmptyLog
  /\ rec = NewRecorder /\ pending = <<>>
  /\ enc = NewEncoder /\ stored = <<>>
  /\ marks = <<>> /\ out = <<>>

-----------------------------------------------------------------------------
(* CDFContextLog *)

Cdf(words, c) == [i \in 1 .. Layout[c].len |-> words[Layout[c].offset + i - 1]]

\* CDFContextLog::push
push(c) ==
  LET entry == [i \in LoggedWords(c) |-> fc[i]]
  IN IF Small(c) THEN [fc_log EXCEPT !.small = Append(@, entry)]
                 ELSE [fc_log EXCEPT !.large = Append(@, entry)]

Restored(words, entry) ==
  [i \in DOMAIN words |-> IF i \in DOMAIN entry THEN entry[i] ELSE words[i]]

\* Mutation: the oldest entry is restored first.
log_rollback_forward(words, part, n) ==
  LET back[k \in 0 .. Len(part) - n] ==
        IF k = 0 THEN words ELSE Restored(back[k - 1], part[n + k])
  IN back[Len(part) - n]

\* CDFContextLogPartition::rollback: the newest entry is restored first.
log_rollback(words, part, n) ==
  LET back[k \in 0 .. Len(part) - n] ==
        IF k = 0 THEN words ELSE Restored(back[k - 1], part[Len(part) - k + 1])
  IN back[Len(part) - n]

\* update_cdf in place
Updated(words, c, s) ==
  LET new == update_cdf(Cdf(words, c), s)
  IN [i \in DOMAIN words |->
        IF i \in OwnWords(c) THEN new[i - Layout[c].offset + 1] ELSE words[i]]

-----------------------------------------------------------------------------
(* Writing *)

Room == out = <<>> /\ Len(stored) + Len(pending) < MaxSymbols

\* symbol_with_update into the Recorder
RecordSymbol(c, s) ==
  /\ Room /\ c \notin DirectCdfs
  /\ fc_log' = push(c)
  /\ rec' = record(rec, token(Cdf(fc, c), s))
  /\ fc' = Updated(fc, c, s)
  /\ pending' = Append(pending, <<c, s>>)
  /\ UNCHANGED <<enc, stored, marks, out>>

\* symbol_with_update into the Encoder (write_lrf), for a superblock in front
\* of the recorded one.
WriteDirect(c, s) ==
  /\ Room /\ marks = <<>> /\ c \in DirectCdfs
  /\ fc_log' = push(c)
  /\ enc' = store(enc, token(Cdf(fc, c), s))
  /\ fc' = Updated(fc, c, s)
  /\ stored' = Append(stored, <<c, s>>)
  /\ UNCHANGED <<rec, pending, marks, out>>

\* ContextWriter::checkpoint and Writer::checkpoint
Checkpoint ==
  /\ out = <<>> /\ Len(marks) < MaxMarks
  /\ marks' = Append(marks, [small |-> Len(fc_log.small), large |-> Len(fc_log.large),
                             w |-> recorder_checkpoint(rec)])
  /\ UNCHANGED <<fc, fc_log, rec, pending, enc, stored, out>>

\* Both are rolled back; the checkpoint may be used again.
Rollback ==
  /\ marks # <<>>
  /\ LET m == marks[Len(marks)]
     IN /\ fc' = log_rollback(log_rollback(fc, fc_log.small, m.small),
                              fc_log.large, m.large)
        /\ fc_log' = [small |-> SubSeq(fc_log.small, 1, m.small),
                      large |-> SubSeq(fc_log.large, 1, m.large)]
        /\ rec' = recorder_rollback(rec, m.w)
        /\ pending' = SubSeq(pending, 1, m.w.backend_var)
  /\ UNCHANGED <<enc, stored, marks, out>>

\* A decision is taken, its checkpoint is not used any more.
Decide ==
  /\ marks # <<>>
  /\ marks' = SubSeq(marks, 1, Len(marks) - 1)
  /\ UNCHANGED <<fc, fc_log, rec, pending, enc, stored, out>>

\* The superblock is written; the next one begins with an empty log.
EndSuperblock ==
  /\ marks = <<>> /\ pending # <<>>
  /\ enc' = replay(rec, enc)
  /\ rec' = NewRecorder
  /\ stored' = stored \o pending
  /\ pending' = <<>>
  /\ fc_log' = EmptyLog
  /\ UNCHANGED <<fc, marks, out>>

EndTile ==
  /\ marks = <<>> /\ pending = <<>> /\ out = <<>>
  /\ out' = done(enc)
  /\ UNCHANGED <<fc, fc_log, rec, pending, enc, stored, marks>>

TileDone == out # <<>> /\ UNCHANGED swVars

SwNext ==
  \/ \E p \in Symbols : RecordSymbol(p[1], p[2]) \/ WriteDirect(p[1], p[2])
  \/ Checkpoint \/ Rollback \/ Decide \/ EndSuperblock \/ EndTile \/ TileDone

SwSpec == SwInit /\ [][SwNext]_swVars

-----------------------------------------------------------------------------
(* Correctness *)

\* The words after the symbols, a Recorder that has seen the tokens, and an
\* Encoder that was given the symbols one by one, each with its CDF as the
\* symbols before it have left it.
Adapted(symbols) ==
  LET after[n \in 0 .. Len(symbols)] ==
        IF n = 0 THEN InitialFc
        ELSE Updated(after[n - 1], symbols[n][1], symbols[n][2])
  IN after[Len(symbols)]

Recorded(tokens) ==
  LET after[n \in 0 .. Len(tokens)] ==
        IF n = 0 THEN NewRecorder ELSE record(after[n - 1], tokens[n])
  IN after[Len(tokens)]

Encoded(symbols) ==
  LET after[n \in 0 .. Len(symbols)] ==
        IF n = 0 THEN NewEncoder
        ELSE store(after[n - 1], token(Cdf(Adapted(SubSeq(symbols, 1, n - 1)), symbols[n][1]),
                                       symbols[n][2]))
  IN after[Len(symbols)]

\* Whatever has been tried and rolled back, in whatever nesting, the CDFs are
\* the ones adapted to the symbols that were kept, the Recorder is one that
\* has only seen the symbols it holds, so that its bit counts are right, and
\* the Encoder one that has only seen the symbols of the bitstream, with the
\* CDFs of a decoder, although symbols were recorded before others and
\* written after them.
RollbackComplete ==
  /\ fc = Adapted(stored \o pending)
  /\ rec = Recorded(rec.storage)
  /\ enc = Encoded(stored)

\* A decoder, which adapts its CDFs in the order of the bitstream, reads the
\* symbols that were kept: carries, the last bytes, symbols that were
\* recorded before others but written after them.
BitstreamDecodes ==
  LET Read(d, p) ==
        LET r == read_symbol(d.rd, Cdf(d.fc, p[1]))
        IN [rd |-> r.rd, fc |-> Updated(d.fc, p[1], p[2]),
            ok |-> d.ok /\ r.symbol = p[2]]
      after[n \in 0 .. Len(stored)] ==
        IF n = 0 THEN [rd |-> NewReader(out), fc |-> InitialFc, ok |-> TRUE]
        ELSE Read(after[n - 1], stored[n])
  IN out # <<>> => after[Len(stored)].ok
=============================================================================
