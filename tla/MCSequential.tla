---------------------------- MODULE MCSequential ----------------------------
(* The parts that one thread uses alone.  The buffered writers, over a       *)
(* writer that fails at any point, and the string searchers are driven       *)
(* through sequences of calls; the collections and algorithms are called     *)
(* once on every small input.                                                *)
EXTENDS Naturals

CONSTANTS Null,
          MaxText, MaxData, Capacities,
          Caps, MaxExtra, MaxKept,
          SignificandBits, ExponentBits, NarrowSignificandBits, NarrowExponentBits,
          BroadSignificandBits, IntWidths,
          WordBits,
          MaxHaystack, MaxNeedle, AsciiLength, MaxString, MaxPattern, MaxPieces,
          ByteBits, USIZE_BYTES, MaxLength, Bytes,
          B, LargestKey, MaxScanned, MaxScannedDeep, MaxAppended

VARIABLES flavour,
          kind, nl, vectored, cap, buf, panicked, written, sink,
          call, given, ret, work, told, short, fate,
          haystack, needle, back, searcher, from, matched, before, answer, ended,
          obj, items, got, wanted, called

Io == INSTANCE BufWriter
Deque == INSTANCE VecDeque WITH ring <- obj
BTree == INSTANCE BTreeMap WITH maps <- obj
Float == INSTANCE SoftFloat WITH input <- obj
Wide == INSTANCE WideInt WITH input <- obj
Search == INSTANCE StrSearcher
SearchChar == INSTANCE CharSearcher
Cut == INSTANCE StrIter WITH input <- obj
Mem == INSTANCE Memchr WITH input <- obj

writer == <<kind, nl, vectored, cap, buf, panicked, written, sink, call, given, ret, work, told, short, fate>>
charSearch == <<haystack, needle, searcher, before, answer>>
strSearch == <<back, from, matched, ended>>
search == <<charSearch, strSearch>>
once == <<obj, items, got, wanted, called>>
vars == <<flavour, writer, search, once>>

NoWriter ==
    /\ kind = Null /\ nl = Null /\ vectored = Null /\ cap = Null /\ buf = Null /\ panicked = Null
    /\ written = Null /\ sink = Null /\ call = Null /\ given = Null /\ ret = Null /\ work = Null
    /\ told = Null /\ short = Null /\ fate = Null

NoCharSearch == haystack = Null /\ needle = Null /\ searcher = Null /\ before = Null /\ answer = Null
NoStrSearch == back = Null /\ from = Null /\ matched = Null /\ ended = Null
NoSearch == NoCharSearch /\ NoStrSearch

NoCall == obj = Null /\ items = Null /\ got = Null /\ wanted = Null /\ called = Null

(* One call of a component that has no items of its own.                     *)
OneCall(init) == init /\ items = Null /\ NoWriter /\ NoSearch

Init ==
    \/ flavour = "writer" /\ Io!Init /\ NoSearch /\ NoCall
    \/ flavour = "str" /\ Search!Init /\ NoWriter /\ NoCall
    \/ flavour = "char" /\ SearchChar!Init /\ NoStrSearch /\ NoWriter /\ NoCall
    \/ flavour = "deque" /\ Deque!Init /\ NoWriter /\ NoSearch
    \/ flavour = "btree" /\ BTree!Init /\ NoWriter /\ NoSearch
    \/ flavour = "float" /\ OneCall(Float!Init)
    \/ flavour = "int" /\ OneCall(Wide!Init)
    \/ flavour = "cut" /\ OneCall(Cut!Init)
    \/ flavour = "memchr" /\ OneCall(Mem!Init)

Next ==
    \/ flavour = "writer" /\ Io!Next /\ UNCHANGED <<flavour, search, once>>
    \/ flavour = "str" /\ Search!Next /\ UNCHANGED <<flavour, writer, once>>
    \/ flavour = "char" /\ SearchChar!Next /\ UNCHANGED <<flavour, strSearch, writer, once>>
    \/ flavour = "deque" /\ Deque!Next /\ UNCHANGED <<flavour, writer, search>>
    \/ flavour = "btree" /\ BTree!Inserts /\ UNCHANGED <<flavour, writer, search>>
    \/ flavour = "btree" /\ BTree!Removes /\ UNCHANGED <<flavour, writer, search>>
    \/ flavour = "btree" /\ BTree!Pops /\ UNCHANGED <<flavour, writer, search>>
    \/ flavour = "btree" /\ BTree!SplitsOff /\ UNCHANGED <<flavour, writer, search>>
    \/ flavour = "btree" /\ BTree!Appends /\ UNCHANGED <<flavour, writer, search>>
    \/ flavour = "btree" /\ BTree!Drains /\ UNCHANGED <<flavour, writer, search>>
    \/ flavour = "btree" /\ BTree!Ranges /\ UNCHANGED <<flavour, writer, search>>
    \/ flavour = "btree" /\ BTree!Consumes /\ UNCHANGED <<flavour, writer, search>>
    \/ flavour = "btree" /\ BTree!Clones /\ UNCHANGED <<flavour, writer, search>>
    \/ flavour = "float" /\ Float!Next /\ UNCHANGED <<flavour, items, writer, search>>
    \/ flavour = "int" /\ Wide!Next /\ UNCHANGED <<flavour, items, writer, search>>
    \/ flavour = "cut" /\ Cut!Next /\ UNCHANGED <<flavour, items, writer, search>>
    \/ flavour = "memchr" /\ Mem!Next /\ UNCHANGED <<flavour, items, writer, search>>

Spec == Init /\ [][Next]_vars

(* Whatever the inner writer does, it is given the text in order and no byte *)
(* twice, and what the owner of a BufWriter or LineWriter was told was       *)
(* written is in it or in the buffer.                                        *)
ToldIsKept == flavour = "writer" => Io!ToldIsKept

(* A LineWriter keeps a completed line only because the inner writer would   *)
(* not take it, and then nothing comes after it.                             *)
LinesGoOut == flavour = "writer" => Io!LinesGoOut

(* A searcher, called in any order, answers as a search by definition does:  *)
(* the nearest occurrence ahead, nothing passed over, every index on a       *)
(* character boundary.                                                       *)
SearchesByDefinition ==
    /\ flavour = "str" => Search!FindsOccurrences
    /\ flavour = "char" => SearchChar!FindsCharacters

(* Every call has the result of its definition: VecDeque does what a         *)
(* sequence does wherever its elements lie in the ring; BTreeMap what an     *)
(* ordered map does, and leaves balanced trees; the soft-float routines      *)
(* return the exact result rounded to nearest even and the double-word       *)
(* integer routines the exact one; splitting, matching and trimming cut a    *)
(* string at its greedy matches; memchr and memrchr find the first and the   *)
(* last byte.                                                                *)
MatchesReference ==
    /\ flavour = "deque" => Deque!ActsAsSequence
    /\ flavour = "btree" => BTree!ActsAsOrderedMap
    /\ flavour = "float" => Float!ExactlyRounded
    /\ flavour = "int" => Wide!ExactOnWords
    /\ flavour = "cut" => Cut!CutsAsDefined
    /\ flavour = "memchr" => Mem!FindsTheByte
=============================================================================
