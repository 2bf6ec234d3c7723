# hlibc in TLA+

This directory is a verification development of hlibc, a C library of data
structures, digests, parsers and small system wrappers, with its test runner
htest. It holds TLA+ modules translated from the source, TLC configurations
that check them on small instances, and theorems that TLAPS proves for every
value of the constants. `PROJECT.json` names, for every definition, the lines
of the source it stands for.

## The system

The library is sequential C except where it says otherwise: its calls keep no
threads of their own and its state is the caller's memory. What can go wrong is
therefore mostly in *sequences* of calls, in aliased arguments, in callbacks that
change what is being traversed, in failures half way, and, for the spinlock, in
interleavings.

| part | source | state it keeps | operations | what makes it correct | modules |
|---|---|---|---|---|---|
| list | `include/hlibc/list.h` 1-108 | `next` and `prev` of every node | init, add, add_tail, rm, move, move_tail, replace, swap | the pointers stay inverse to each other; each call rearranges the rings as named | `List`, `RingLists`, `ListRings`, `ListProofs` |
| list traversal | `list.h` 132-144 | cursors of the loop | for_each, for_each_entry_safe | every node once, in order, and an end, whatever the body does to the current node | `ListIteration`, `ListProofs` |
| hlist | `list.h` 146-214 | `first`, `next`, `pprev` | add_head, add_prev, add_next, del, rehead | a place leads to a node exactly when the node points back at it | `HList`, `HListProofs` |
| heap | `hlibc/heap.c` | the caller's array and count | heapify, heap_add, heap_pop, is_minheap | a priority queue | `Heap`, `PriorityQueue`, `HeapProofs` |
| spinlock | `hlibc/spinlock.c` | one atomic flag, shared by threads | lock, trylock, unlock, init, destroy | mutual exclusion | `Spinlock`, `SystemProofs` |
| MD2, MD4, MD5 | `hlibc/crypto/md*.c` | message size, tail buffer, digest state | init, update, finalize | the digest is that of the message, however it is split into updates | `BlockDigest`, `CryptoProofs` |
| kqueue table | `hlibc/kqueue.c` | growing change list, descriptor | init, change, commit, destroy | no change lost, no block leaked, failures reported | `KqueueTable`, `SystemProofs` |
| htest | `htest/htest.c` | list of suites, the running test, its resources and jump buffer, statistics | declare, run, verdicts (longjmp), hooks, resources | resources released, statistics true, hooks run, however a test ends | `HTest`, `HTestProofs` |
| SHA-1 | `hlibc/crypto/sha1.c` | message size, tail, digest state | init, update, finalize | as for the other digests | `BlockDigest`, `CryptoProofs` |
| DES | `hlibc/crypto/des.c` | key schedule | init, encrypt, decrypt; ECB calls | decryption undoes encryption; the tables are those of the standard | `Des`, `DesTables`, `DesRound`, `DesVectors`, `Ecb`, `CryptoProofs`, `CallsProofs` |
| SipHash, Murmur | `hlibc/crypto/` | none | hash | every byte of the input counts once | `Tails`, `CallsProofs` |
| strings, codecs | `hlibc/string.c`, `string.h` | none | hex, base64, unaligned access | decoding undoes encoding, inside the room given | `Codecs`, `Words`, `TextProofs` |
| addresses | `hlibc/inet.c` | none | IPv4 and IPv6 to text and back | parsing undoes printing; printing ends | `Inet`, `TextProofs` |
| URI | `hlibc/uri.c` | a position in the text | parse, normalise | splits as RFC 3986 does; normalising twice is normalising once | `Uri`, `Ctype`, `TextProofs` |
| red-black tree | `hlibc/rbtree.c` | tree pointers and colours | first, last, next, prev, rotate, insert | search order, balance, parents inverse to children | `RbTree`, `CallsProofs` |
| bits, mathematics | `bit.h`, `math.c` | none | bit test and set, rotations, gcd, lcm, logarithms | boundaries of the width | `Words`, `CallsProofs` |
| character classes | `hlibc/ctype.c` | none | tables | the classes of ASCII | `Ctype` |
| the rest | `sys`, `io`, `reljmp`, `term`, `memory`, `def` | none | wrappers, macros | | not modelled |
| `etc/`, `test/` | | | experiments outside the build; tests | | tests read as documentation only |

The parts meet in few places. htest keeps its suites and the resources of a test
on lists of `list.h` and walks them with its macros (its cleanup loop is a body
`ListIteration` allows); the heap uses `memswap`; the digests use the unaligned
accesses and `memzero` of `string.h`; the URI normaliser calls the address parsers
and printers of `inet.c`, and both call the hex codec. There are callbacks in the heap (`less`) and
in htest (units, hooks, resource constructors and destructors).

## Modules

**List** holds the pointers of all nodes in one record `ptr` and has one operator
per inline function (`NodeInit`, `Link` for `__list_add`, `Unlink` for `__list_rm`,
`Add`, ... `Swap`), from memory to memory, in the order of the assignments, so that
aliased arguments behave as they do in the code. One action per function calls it
on any nodes a caller may pass. The header writes down no preconditions; the
guards are those its callers keep: add a node that is on no list (`linked` is a
ghost for that), remove one that is on one, swap nodes that have a neighbour. A
caller may or may not swap a node with its own predecessor, which is the constant
`SwapPredecessor`.

**RingLists** is what list.h promises, without pointers: nodes arranged in rings.
**ListRings** maps pointers to rings by following `next`, for at most as many steps as
there are nodes (which are assumed finitely many), and states that List
implements RingLists (`RefinesRings`) and, more sharply, that each call does what
its own name says (`CallsKeepPromises`: a `list_move_tail` that behaved as
`list_move` would still be some step of RingLists).

**ListIteration** adds a running loop: its cursors, and a body that leaves the
list alone, removes the current node, or (safe macro) moves it to another list.
Between loops the lists are built by all the calls of List.

**HList** names a `struct hlist_node **` by the head or node whose field it points
to. `hlist_add_prev` is modelled as written; the node it drops still points into the
chain, so that nothing is called after it. `Chain(h)` is what a walk from a head meets.

**Heap** runs one loop iteration of `heap_up`, `heap_down` and `heapify` per step.
**PriorityQueue** is a bag of elements from which a least one is removed; Heap
implements it with the bag of the elements in use.

**Spinlock** has one step per atomic operation and per `sched_yield`; threads call
lock or trylock, are let in, and unlock. Two ghosts keep the answers given since the flag
was last cleared: the first one, and the set of the later ones.

**BlockDigest** follows the bytes of a message through the tail buffer into blocks.
Digest states are not computed: the digest is a function of the blocks compressed,
so `fed` records these, and each byte is told apart by where it comes from (position
in the message, mark, zero, length, or never written). SHA-1 has an update and a
padding of its own: its loop goes `Step` bytes between two blocks and stops at the
first place less than `Slack` bytes before the end of the input (16 and 8 in the
code), and its padding is one block whatever the size. When the loop ends behind the
input the size of the rest is negative and the copy runs through all memory
(`Sha1Runaway`): nothing is claimed about that run any more.

**KqueueTable** has the change list with its capacity, the event list and the
descriptor; realloc and kqueue() may fail at any call; kevent is external and takes the
changes it is given.

**Des** runs one unrolled line of `des_encrypt` or `des_decrypt` per step. The round
function, the exclusive or and the initial permutation are constants with the two
facts decryption depends on assumed of them; **DesTables** has the permutation as the
code spells it out and checks one of these on it, the other is arithmetic (`^` undoes
itself). Ghosts keep the halves an encryption went through. **DesVectors** is the same
network at full size, with the round function and the tables of `DesRound`, on the known
answers of `test/hlibc/crypto/test_des.c`.

**HTest** is the runner: `pc` is its place in `htest_run_suite`; units and hooks are
arbitrary and may create resources, return, or end by a verdict, that is by
longjmp. `jmp` says whether the buffer has been set since it was cleared. How often a
destroy hook ends by a verdict is not bounded: each time the jump lands where the hook is
called again.

**Calls** is the module of the functions that keep no state. Its one variable part is
the call in progress: function, argument and result. An action per function takes its
argument from a constant set and the result from the operator that models the
function; then the call returns, unless the function does not. Assumptions say
what the sets are made of: memory and messages hold bytes and strings are characters
other than zero (`BytesAssumption`); words have the widths of `bit.h`, `gcd` and `lcm`
take an int and `log2` an unsigned int other than zero (`IntegersAssumption`), whose widths
are the constants `IntMax` and `UintBits` (`WidthAssumption`); trees are search trees, linked by their user
with pointers that agree, of any number of nodes (`TreesAssumption`); the cipher of the
block calls returns blocks and is undone by its decryption (`CipherAssumption`, which is
what `CryptoProofs` shows of Des); keys are words of 64 bits (`KeysAssumption`); the groups of an IPv6 address are one to four
hexadecimal digits (`Ipv6FormsAssumption`). Two more are facts about constants, which TLC
computes: the alphabets, which are written as character codes, are the letters of the
source (`CsetAssumption`; no proof uses it), and the characters that end a part of a URI
are not in the sets of `uri.c` for that part (`DelimitersAssumption`). The operators are in modules by source file:

- **Codecs**: hex and base64 of `string.c`, with the size of the buffer decoded into.
- **Ctype**: the two character tables that have a reader in the library.
- **Inet**: IPv4 and IPv6, to text and back. A parse of IPv6 takes ten steps,
  one for each group, on a record with the position, the bytes so far and how it stands; a byte that nobody
  set is `Unset`, or one of `Stack` where it is printed; `Hangs` is a loop without end, and
  `Smashed` the return from a call that has written behind an array on its own stack, after
  which nothing can be said: `ipv6_norm` and `parse_host` have `ipv6_to_bin` fill one of
  sixteen bytes.
- **Uri**: the parser as a chain of functions of the position, a segment being a pair
  of offset and length or NULL, and the normaliser of each part.
- **Words**: `bit.h`, `math.c` and the unaligned accesses. A word is the sequence of its
  bytes or bits, so that the width is its length. When the product in `lcm` is no int the
  result is any of `Overflows`.
- **DesRound**: expansion, substitution, permutation and the sixteen functions of the
  key schedule; **Ecb**: the block calls over any cipher.
- **Tails**: the words that SipHash and Murmur mix in.
- **RbTree**: nodes are numbers in the order of their keys; left, right, parent and
  colour are functions on them. There is no search in the library: the caller
  links, and so do the trees of `MCCalls`.

The properties of Calls compare a result with what it stands for, said in another way
than the function computes it: a codec by the bits of its text, an address by the
grammar of its strings, a URI by the ends of its parts in RFC 3986, a key schedule by
the shifts of FIPS 46-3, a traversal by the order of the keys.

The MC modules give the constants values. Operators marked "Mutant of" restate a
definition with a plausible bug in it; they are used nowhere in the specifications
and show, when put in the place of the definition, that the properties notice.

## Runs

| run | what it checks | bounds |
|---|---|---|
| `list_iteration` | `DoublyLinked`, `RefinesRings`, `CallsKeepPromises`; `VisitsTheList`, `LoopsEnd` | four nodes: every aliasing of two arguments with the neighbours of each, one list of four or two lists of two |
| `list_swap_predecessor` | violation of `DoublyLinked` when a node is swapped with its predecessor | the same |
| `hlist` | `WellLinked`, `CallsChangeChains` | two heads, four nodes |
| `heap` | `HeapOrder`, `ImplementsQueue`, `PopTakesLeast`, `AddReturnsPosition`, `IsMinheapStrict`, `CallsEnd` | capacity five: three levels, a parent with one child and with two; four elements, two of equal rank; every initial array |
| `spinlock` | `OnlyTheFirstIsTurnedAway`, `LockDoesNotWait` | three threads; `SpinLimit` small in place of 100000, so that the yield is reached |
| `spinlock_exclusion` | violation of `MutualExclusion` | the same |
| `block_digest` | `LosesCompletedTails`, `Sha1LeavesOut` | blocks of eight bytes, the length in the last two, messages up to 26 bytes in any split: every residue, up to three whole blocks, padding with and without a block of its own, a second message on the context of the first; for SHA-1 a step of four and a slack of two, so that its loop ends before, at and behind the end of an input |
| `block_digest_split` | violation of `DigestsTheMessage` | the same |
| `htest` | `ResourcesReleased`, `StatsMatch`, `JumpsLand`, `RunEnds` | two suites of two units, all combinations of skip and hooks, two resources per test; verdicts in a destroy hook without a bound |
| `kqueue` | `ListHoldsChanges`, `TableEnds`, `CommitsEverything` | seven changes: capacities 0, 2, 3, 4, 6, 9; up to two events |
| `des` | `RoundTrip`, `KnownAnswers` | four rounds (an even number, as sixteen is: first, last and two inner ones), halves of two bits, four key schedules, every block; and sixteen rounds with the tables of the code on the 171 keys and blocks of `test_des.c` |
| `functions` | the fourteen properties of Calls | the sets of `MCCalls`, below |

The inputs of `functions` (`MCCalls`) are chosen at the edges of each function:
buffers of up to four bytes with the lowest, highest and middle values, decoded into
rooms of zero to seven bytes from strings with wrong digits, wrong lengths and paddings
of every length; decimals with and without leading zeros around 255, at each place
of an address, and addresses with a part too few or many; IPv6 addresses of zero to
nine groups before and zero to eight behind a "::", whose groups differ by place and
have one to four digits; URIs from all combinations of a scheme, an authority and a
path, with query and fragment, and all strings of up to three delimiters; segments
with encodings of reserved, unreserved and non-ASCII octets, whole and cut short;
every bit of two bytes; rotations of words of 8 to 64 bits (of 32 and 64 not by zero
or the width, for which C has no answer); integers from -12 to 12, the greatest int being
99, so that the product of some of them is one and that of others is none; arguments of the
logarithms around every power of two up to the greatest unsigned int, which has 31 bits
because TLC's integers have 32; messages of every length up to 26 and one of 259, where the
length no longer fits a byte; each single bit of a DES key; all shapes and colours of search trees of up to four nodes.

Deadlock is checked except where the system really stops: htest when its suites
are done or the program is lost, the kqueue table when it is destroyed, hlist
after `hlist_add_prev`, and a call of `functions` that hangs. A type invariant is
stated in each module; it is proved wherever there are proofs, and no run spends
itself on it.

What the runs show of the code:

- The list calls are right in every order and with every aliasing but one:
  `list_swap(a, b)` with `b` just before `a` links `b` behind itself.
- `list_for_each` survives the removal of the current node only because `list_rm`
  leaves the pointers of the removed node alone.
- `hlist_add_prev` puts the item in the place of the node, which falls off its
  chain.
- The heap is a priority queue. `is_minheap`, of which `heap.h` 35 says that it
  tests "if `base` is a well formed min-heap", rejects every heap in which a child
  equals its parent, which the heap's own calls make (`IsMinheapStrict`).
- The spinlock lets in every caller that finds the flag set and refuses the one
  that sets it. It excludes nobody: between two clears of the flag the first
  answer is never to let in, and every later one is, to the same thread too when it
  asks again (`OnlyTheFirstIsTurnedAway`); and `LockDoesNotWait` says that a call of
  `spinlock_lock` returns even though no holder ever unlocks.
- A digest fed in several updates loses every block that an update completes in
  the tail (the block is copied and not compressed). Everything else about the
  cutting and padding is as in the RFCs: this is `LosesCompletedTails`.
- SHA-1 compresses overlapping blocks, and not every byte: whatever an update had behind a
  block it completed in the tail is left out, and so is a tail that needs a second block of
  padding, which never comes; every other byte is compressed, or waits in the tail
  (`Sha1LeavesOut`). The length in its last block is in bytes (`Sha1Padded`), where RFC 3174
  has it in bits: the digest is that of the RFC for the empty message only.
- The value of an init hook is dropped (`htest.c` 78-79), although `htest.h` 68-69 says
  that "errors will cancel the test case"; `InitReturns` has therefore no choice to
  make. A verdict in an init hook jumps through a
  zero buffer (`JumpsLand`). A verdict in a destroy hook runs the hook again, and a hook that
  ends by one each time is run for ever: `RunEnds` says that this is the only way for
  `htest_run_suite`, which by `htest.h` 146 "runs all tests in the suite", not to end.
- DES decrypts what it encrypts: the sixteen lines of decryption retrace those of
  encryption. The two permutations, the expansion, the substitutions, the permutation behind
  them and the key schedule are together those of the standard as far as its known answers
  tell (`KnownAnswers`); a single wrong entry in them would change one of the answers.
- A kqueue table is sound until realloc fails; then its block is lost and the next
  change writes through NULL (`TableEnds`, which also has what a destroyed table leaves:
  the descriptor). Its `eventlist` is never allocated, so that no commit
  delivers an event, and `nchanges` is never reset, so that each commit repeats the
  changes of those before. A refusal is reported by a positive ENOMEM, where
  `kqueue.h` 59 promises a negative number.
- The hex and base64 codecs are those of RFC 4648, and write no byte behind the room
  they are given. The IPv4 parser takes exactly what the printer prints.
- The IPv6 parser takes an address exactly when it is well-formed, as long as it is written
  with a colon between two groups. But it splits a group into
  its bytes by a shift of four, and moves what follows a "::" by, and as many bytes as,
  the length of the gap: `Ipv6RightWhenEven` says for which of these addresses the result is
  nevertheless right. Of other strings it takes more and fewer than RFC 4291 does
  (`Ipv6TakesAndSmashes`): behind a group of four digits the colon may be missing, so that
  `11112222333344445555666677778888` and `12345::` are addresses, and an IPv4 address may end
  a mapped address only, wherever its last groups are cut, so that `::1.2.3.4` is refused. When a gap is
  longer than what follows it, `::` for one, the copy runs behind the sixteen bytes, and
  `ipv6_norm` and `parse_host` have these on their stack (`Smashed`). The printer does not advance its index: it hangs, or prints
  a single colon (`Ipv6PrintsColon`).
- A URI that is taken is split as RFC 3986 splits it. But a host that is no IPv4
  address never gets through, because `parse_host` moves the position for that kind
  only (`UriSplits`). Normalisation keeps the octets and is stable but for the name
  of a host that, normalised, begins with an IPv4 address, as `%31.2.3.4` and `%31.2.3.4a` do: a second
  call takes that for the host, and loses it (`NormalizeStable`);
  a host that is an IPv4 address is found and then not copied.
- `bit_test` counts the bits of a byte from the other end than `bit_set`, `bit_clear` and
  `bit_flip` do (`BitsMirrored`). Rotations and gcd are right, the logarithms too, those of numbers
  with the highest bit set included; lcm is right when the product of its arguments is
  an int, and arbitrary otherwise, even where the least common multiple would be one, since it
  multiplies before it divides (`Arithmetic`).
- `des_ecb_decrypt` gives back the whole blocks; the last part comes back reversed,
  and off by one (`EcbReturns`). The key schedule is that of FIPS 46-3
  (`KeyScheduleIsFips`).
- Both hashes take every byte of their input once (`AbsorbsOnce`).
- Traversal of a tree is in order. `rb_rotate` leaves the two links it would have to
  set in other nodes than its arguments, and `rb_insert` never links the node:
  only the first insertion puts one into the tree (`RotationLeavesLinks` and
  `InsertNeverLinks`, together `ChangesLeaveLinks`).

Read in the code and checked by no run: `hlist_rehead` onto a head that leads
somewhere loses that chain; a resource whose constructor returns NULL is tracked
and passed to its destructor all the same; `hlib_toupper` and `hlib_tolower` return
`bool` (`ctype.h` 33 and 39), and nobody calls them.

## Fairness

`heap`: a call that was made keeps being executed; nobody has to make one.
`list_iteration`: the same for a loop that was entered (its body returns).
`spinlock`: a thread inside `spinlock_lock` keeps running, which is what the
scheduler gives a runnable thread; no thread has to call, and none has to unlock.
`LockDoesNotWait` assumes only that the flag is in the end no longer cleared.
`htest`: the runner keeps running, and each call of a unit or hook ends, by its return or
by a verdict. Nothing says how often a destroy hook ends by a verdict: when it does so for ever
(`htest.c` 81-85) the run stays in that hook, which is the second outcome `RunEnds` has.

## Proofs

The theorems are of the form `Spec => []Inv`, or `Spec => [][A]_vars` for what a step
may do, or say that one specification implements another. They rest only on the
assumptions of their modules (NULL is no node, heads are not nodes, the capacity is
positive, ranks are integers, the spin limit is positive, bounds are naturals; where
lists are walked, that there are finitely many nodes; for the digests, that the
length is a proper part of a block, the step is positive and the slack within it; for
DES, an even number of rounds, an exclusive or that undoes itself, and a permutation
with its inverse; for the calls, the assumptions named there, which TLC evaluates
on the run `functions`).

- `ListsStayWhole` (ListProofs): `TypeOK` and `DoublyLinked` are inductive together.
  A lemma for `Link`, `Unlink` and `Replace` says what they do to an inverse pair of
  pointers on a set of nodes; the calls compose these. The theorem needs
  `~SwapPredecessor`, and the run `list_swap_predecessor` shows that it does.
- `ListsImplementRings`, `CallsDoAsNamed` (ListProofs): the refinement of RingLists and
  the promise of each call. A ring is what a walk finds, so the proof is about an
  arrangement instead: `Arranged(next, L, r)` says, without walking, that `r` gives
  each node of `L` a ring read from it. Three facts make the two the same. A walk from
  a node of a ring finds that ring (`WalkFindsRing`, by the least place where it would
  not); a ring fits into as many steps as there are nodes; so there is one arrangement
  (`WalksFindArrangement`). For each pattern of assignments a lemma gives the new
  arrangement: a node starts a ring, comes behind or before another, is taken out,
  trades places. Invariant: `RingInv`, which is that of `ListsStayWhole` with
  `Arranged(ptr.next, linked, RingOf)`.
- `LoopsVisitTheList`, `LoopsKeepLists` (ListProofs): every step of a loop is a call of
  List or leaves the pointers (`LoopsCallLists`), so that loops keep what the calls keep.
  For the visits, `LoopInv` says that the items seen are a prefix of those that were
  on the list, that the remaining ones are still linked in their order, the last back
  to the head, and that the cursor that advances leads to the first of them. A removed
  node keeps its `next`, which is how `list_for_each` goes on; the safe macro has read
  it before.
- `ChainsStayLinked` (HListProofs): `WellLinked` is inductive with `TypeOK`;
  `hlist_add_head` and `hlist_add_next` are one lemma, insertion behind a place.
- `HeadsKeepApart`, `CallsDoToChains` (HListProofs): as for the rings. `Chained` says
  which chains the heads have and that they share no node; a walk finds them; a lemma
  for each call gives the chains after it. `WellLinked` is what makes `node->pprev` the
  place before the node on its chain (`PprevIsBefore`).
- `HeapStaysOrdered` (HeapProofs): between calls is not enough. The inductive
  invariant says for each call in progress which one pair may be out of order: the
  loop variable and its parent while rising, the loop variable and its children
  while sinking, together with the order of grandparents and grandchildren around
  it. `PopsTakeLeast` follows with a least-index argument on the path to the top.
  `AddsAtPosition` follows the new element as it rises; `MinheapsAreStrict` needs
  nothing but that each index is a child of its parent.
- `HeapImplementsQueue` (HeapProofs): the refinement of PriorityQueue. The
  map counts, for each element, the places that hold it. A swap leaves each count
  (`SwapKeepsPlaces`: an element leaves one place for another), an element added
  counts one more, and what `heap_pop` drops is, after a swap of the top with the
  end, the end. That it is a least one is the lemma of `PopsTakeLeast`.
- `LetsInAllButTheFirst` (SystemProofs): the invariant (`AnswersInv`) adds to the property
  that a first answer has been given exactly when the flag is set: it is what decides the answer of the next test-and-set.
- `DecryptionUndoesEncryption` (CryptoProofs): the invariant `TraceInv` says that after
  n rounds of decryption the halves are those encryption had before its last n,
  exchanged (`RoundsRetraced`). Its step is the lemma `RoundUndone`: a round is undone
  by the round at the mirrored place, because the rounds alternate and their number
  is even. Nothing is assumed of the round function or of the keys.
- `ListKeepsChanges`, `TablesEndLikeThis`, `CommitsPassAll` (SystemProofs): the invariant
  `ListInv` (the slots in use are the accepted changes, the block is there when the
  capacity is not zero, one block is allocated) holds until realloc fails; it needs
  that the list grows at each growth, which the integer division of its capacity by
  two gives only with the lower bound of two (`GrownMore`). From then on there is no block
  and room for another change (`LostInv`), so that no change is accepted or refused any more.
- `TestsReleaseResources`, `StatsAreTrue`, `JumpsLandSafely`
  (HTestProofs): one invariant each, over the types and places of the runner. The
  resources left are the numbers up to some k, the last at the head, and those
  released the numbers above, downwards (`ResourceInv`); the counters count the units
  before the one that runs, and with it from the switch on (`StatsInv`); in the unit
  and in the destroy hook the jump is set (`HookInv`).
- `CompletedTailsAreLost`, `WrongOnceATailIsLost` (CryptoProofs): the blocks of an MD
  digest. What is fed is described by position: `Rank` counts, and `IsKept` tells, the
  blocks of the padded message that no update has completed in the tail. `FeedInv` says
  that block n of those fed is the n-th one kept; `DigestInv` carries it through the
  padding, with a block of its own for the length and without. A lost tail makes the
  digest another one, and nothing else does.
- `Sha1LeavesOutOnly` (CryptoProofs): what SHA-1 compresses and what it leaves out, byte by
  byte. The invariant says which bytes the tail holds; the bytes of an update without a
  tail fall into the blocks of its steps, which overlap but leave no gap as long as a step is
  no longer than a block, and into the tail behind them.
- `DigestTypeCorrect` (CryptoProofs): the types of the context, which these proofs need.

The theorems of CallsProofs and TextProofs are about calls with any arguments of their
kind: messages, buffers, strings and rooms of every size. TextProofs has those that read or
write a text (the codecs, addresses and URIs) and extends CallsProofs, which has the
others. The invariants, `Answers` and `TextAnswers`, only tie the result to the function
and the argument; the work is in lemmas about the operators, which describe a sequence
place by place, so that no step needs an induction over it. In CallsProofs:

- `EcbGivesBack`: `BlockIs` and `PaddedIs` say which byte is where in a block and in the
  padded rest; `EcbIs` puts the blocks together.
- `HashesAbsorbOnce`: `WholeWordsIs` and `LittleEndianIs` place byte `i` of word `b`; that
  each place of the input has one such pair is `DivMod` and `Within`.
- `WritesAreMirrored`: `BitPutIs` says what a write to one bit leaves of every other; it
  rests on the eight powers of two, which are all the shifts there are.
- `IntegersAreExact`: a rotation is two shifts whose bits do not meet (`ShiftsAre`). The
  logarithms count the zeros in front of a word, so that they are bounded by two powers
  of two; there are 32 of these, each twice the one before. `gcd` is a loop, written as a
  recursive function: that there is one function that meets its equation is
  well-founded recursion on the second number, and that it returns the greatest divisor
  is the identity of Bezout (`IsGcd`): a common divisor that is a combination of the two
  is divided by every other, and a least counterexample would have a smaller one after
  the next round. What `lcm` divides it divides exactly, when the product is an int.
- `RoundKeysAreThoseOfDes`: each table of the key schedule picks, at every place, the bit
  that PC2, the shift and PC1 pick (`SchedulePicks`), so the round keys of every key are right.

The theorems about `rbtree.c`, in CallsProofs too, are for search trees of any size and
shape. What the loops of the code walk is modelled by recursive functions (`Below`,
`Path`, `Down`, `Above`, `Place`, `Walk`), and nothing is known of such a function until some function is shown to meet its
equation. For `Below` that is the set of what the links reach, the least set that they do
not leave; for the others it is the end of the chain of nodes that a loop follows. In a
search tree the keys only grow or only shrink along a chain, so that no chain comes back
and each has an end.

- `WalksAreInOrder`: the lowest node of a subtree is the end of the chain of left links;
  the climb from a node ends at the least node above its subtree (`ClimbIs`); so `rb_next`
  is the next greater node of the tree (`NextIs`), and a walk that starts at the least
  and goes to the next each time misses none (`WalkIsInOrder`). `rb_prev` is the same on
  the mirrored tree, with the keys negated.
- `ChangesLeaveLinksBehind` is two theorems. `RotationsLeaveLinks`: the subtree is split into the same three parts before and after
  (`RotationIs`), which gives its nodes and their order. The links a rotation would have
  to write and does not are those of the inner child and of the node above.
  `InsertionsNeverLink`: `rb_sibling` of a left child is that child, so that the uncle the
  loop asks for is the parent itself, and red when the parent is: the loop never gets to
  a rotation, and links stay. Colours do not change what is below a node or above it
  (`SameBelow`). With a red parent below the root the repair makes the parent, being its own
  uncle, black and the node above it red: a path that ends at or below that node, but not
  through the parent, has one black node less than before, and the others have as many.

In TextProofs:

- `EncodingsAreExact`: the hex codec byte by byte (`HexEncodeIs`, `HexDecodeIs`). Base64 over
  groups of three bytes and four characters: `GroupBits` compares the bits of one group,
  `JoinedBits` those of every group, and `FirstsAre` cuts off the last, partial one.
  `FirstOther` is the place where the decoder stops; it ends well there exactly when the
  text is one with its padding or without (`EndedIsTaken`, `TakenIsEnded`).
- `Ipv4HasOneSpelling`: a part is read exactly when it is `Spelled`, the shortest decimal
  of a byte (`SpelledIsRead`, `ReadIsSpelled`); four parts and three dots lie in a
  string in one way (`DottedIsLaid`, `LaidIsDotted`). So what is printed is parsed, what
  is parsed is what is printed, and both are the grammar `IsIpv4`.
- `PrinterPrintsColon`: the loop of the printer stays where it is, so that the longest run
  of zero groups, which `RunsIs` finds, decides between hanging and a colon.
- `Ipv6IsRightWhenEven`: `FormIsLaid` says where in the text of an address each group ends
  and which colons follow; `State` is the state of the parser behind j groups and `After`
  the one behind k iterations, with the place where it leaves its loop, at the end of the
  text or for want of room (`Stop`, `EndIsSeen`). `IterationIs` is the step from one to the
  next, so that ten iterations leave the loop for any address (`TenIterations`) and it is
  taken when it is well-formed (`ParsedIs`). Byte by byte, what is made of a group is right
  when its middle eight bits are its upper eight (`EvenIs`); with a gap shorter, longer or
  as long as what follows it, `ExpandedIs` compares where the bytes land. No group count is
  assumed: addresses with too many groups or too few are among the texts.
- `UrisAreSplit`: the parsers skip characters of a set and stop where the first other one
  is, and appendix B of the RFC cuts at the first delimiter (`FirstFrom` for both).
  Because the delimiters are in none of the sets, a parser that goes on to the end of
  its part stops where the RFC cuts; where the two differ the parser refuses. A
  percent sign takes three characters at once, none of which is a delimiter. The steps of
  `uri_parse_segments` are then followed one by one, with what each leaves of the text.

Checked by TLC only: liveness (`LoopsEnd`, `CallsEnd`, `LockDoesNotWait`, `RunEnds`), for
which fairness would have to be reasoned about; `NormalizeStable`, whose function is a
fold over strings of varying steps, so that what it returns is an induction over data;
`KnownAnswers`, which is about given numbers; and `Ipv6TakesAndSmashes`, whose strings may
lack any of their colons, so that their groups lie at no fixed places.

## Not modelled

- The wrappers `sys`, `io` and `reljmp`, and the headers of macros `term`, `memory` and `def`:
  calls of libc, escape sequences and constants, without state or control.
- `etc/`: sketches outside the build, among them two older URI parsers. The tests.
- In the digests the compression functions, in the hashes the mixing of a word: they
  have no branch, and no property but their own definition.
- The macros of `list.h` that only name a field, and the loops of hlist (238-255), which are
  those of the circular list with the names changed: they use `next` of a head, which has
  only `first`, and `prev` of a node, which has only `pprev`. `list_for_each_entry` takes the steps of
  `list_for_each`, and has no loop of its own in `ListIteration`.
- In `ctype.c` the tables nobody reads; in `math.c` `sigmoid` and the prime counts, which
  are floating point; in
  `string.c` the calls that are one call of libc, and the names of errors.
- In `uri.c` a bracketed address that fills the buffer of 40 characters, which is
  then not ended, and whatever follows when `ipv6_to_bin` writes behind the array of
  `parse_host` or `ipv6_norm`; non-ASCII characters, for which `isxdigit` and the tables of the code have
  no defined answer.
- `abs` of the least integer, for which C has no result. What an overflow in `lcm` gives is
  arbitrary in the model. Negative indices of bits.
- Log messages and the text of statuses.

What a further step could add: a theorem about the normaliser, and the
compression functions of the digests against their RFCs on the test vectors.
