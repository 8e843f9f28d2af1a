# A TLA+ model of jxl-c

jxl-c is a JPEG XL decoder (with a JPEG recompressor and a lossless encoder) in
C, ported from the Rust jxl-oxide. It is single-threaded: what is hard in it is
not interleaved threads but *sequences of calls*. Input arrives in chunks cut
anywhere, events come out of a parser through callbacks into a second state
machine, the application may render keyframes in any order, and a call may fail
half way and be repeated on a decoder that keeps its state. The encoder has the same
shape the other way round: frames are queued, boxes are written contents first,
and the bytes leave in whatever room each call offers. Underneath lie small
machines with intricate state (a bit buffer refilled in two ways, a sliding window
kept in two places, a writer with nested allotments) that everything else trusts.
That is what this project models.

Paths below are those of the repository (`src/decoder.c` is its `src/decoder.c`).
A line is quoted as `file:line`.

## 1. Inventory

| component | state it keeps | operations | modelled in |
|---|---|---|---|
| container parser `src/bitstream/container/parser.c`, `box_header.c` | detect state, box in progress and `bytes_left`, jxlp order state, `no_more` flag, kind | `feed`, `emit` (one event per call), `kind` | ContainerParser |
| container reader `src/container_reader.c` | collected codestream, the auxiliary list | `feed`; the callback of the parser | ContainerReader |
| auxiliary boxes `src/aux_box.c`, `brotli_decode.c`, `src/jbr/data.c` | finished boxes, the one reader in use (raw or brotli), type of the box in progress, `last_box`, jbrd data | `handle_event`, `first_of_type`, `jbrd`, `eof` (never called) | ContainerReader |
| decoder session `src/decoder.c`, `decoder_init.c` | the reader, `initialized`, header | `feed`, `try_init`, `first_exif`, ... | DecoderSession |
| animation rendering `src/render/keyframe_render.c`, `composite.c`, `render_frame.c`, `modular_encode.c`, `modular_compose.c` | four reference slots, `animation_chain_upto`, the crop | `render_keyframe`, `set_crop` | AnimationRender |
| frame loading `src/frame/toc.c`, `frame.c` | sizes and offsets of the sections, two inverse permutations, bytes of each section, the section being read | `frame_parse`, `feed_bytes`, `is_loading_done`, `group_by_kind` | FrameAssembly |
| permutations `src/coding/permutation.c` | Lehmer code, values left, result | `read_permutation`, for the table of contents and the coefficient orders of VarDCT | Permutation |
| frame header `src/frame/frame_header.c` | the header | `parse`, predicates | predicates in AnimationRender |
| still images `src/render/patch_render.c`, prerequisite frames, LF frames | the same slots, owned by the call; LF-frame store | `render` of a still | planned |
| bit reader `src/bitstream/bitstream.c`, `bitstream_inline.h` | 64-bit buffer, bits in it, bytes and bits read | refill (8 bytes at once or one by one), peek, consume, read, skip, pad | BitReader |
| entropy decoding `src/coding/` | LZ77 window and `num_decoded`, the run in progress, the copy of this state that hot loops hoist, the RLE state | read a value: with the decoder's state, with the copy, as a run length | TokenReader over Lz77; tables and histograms not modelled |
| context and allocator `src/context.c`, `src/allocator.c` | the application's allocator, CMS | alloc, realloc, free | planned |
| modular decoding `src/modular/` | channels of a sub-image, the way each is read | the order in which channels and pixels read values | TokenReader; trees, predictors and transforms not modelled |
| VarDCT decoding, filters, features, colour `src/vardct/`, `src/render/` | sample planes | transforms of arrays | not modelled |
| JPEG reconstruction `src/jbr/` | jbrd header, scan state | `reconstruct` | header state only |
| encoder, output `src/encoder/encode.c`, `encode_internal.h` | queue of frames, box counter, chunks, three positions, the caller's buffer | `add_jpeg_frame`, `close_input`, `process_output` | EncoderOutput |
| encoder, bit writer `src/encoder/enc_bit_writer.h`, `.c` | storage, bits written, the chain of open allotments | `write`, `with_max_bits`, reclaim, append | BitWriter |
| encoder, image data `src/encoder/` | JPEG coefficients, histograms, trees | clustering, entropy coding | not modelled |

### How they interact

    application --feed(chunk)--> decoder --> container reader --> parser
                                                 ^   one event per emit  |
                                                 +------- callback ------+
                 codestream bytes -> collected -> try_init (header) -> render_keyframe
                 box events       -> aux box list -> first_exif / jbrd queries

`jxl_decoder_feed` records the chunk and passes it on. The parser loops:
`emit` looks at the bytes left, changes state and hands out at most one event;
the reader's callback consumes it before the next `emit`. If the callback
fails, the call ends with the bytes consumed up to then. `render_keyframe`
re-parses the codestream from its first frame, catches the cache of slots up,
and renders. Whatever is decoded of a frame is read through the bit reader and the
LZ77 layer over it.

    application --add frame--> queue --process_output(room)--> boxes of a frame
                                              |  contents, then the header in front
                 caller's buffer <-- flush -- chunks, up to the final position

A call of `jxl_encoder_process_output` first flushes what is final, then takes
frames from the queue as long as the caller's buffer has room, and flushes behind
every box. It returns in the middle of nothing, but it may return with bytes left
over, and the next call offers another buffer.

### What is hard, and what must hold

* **Cuts.** A chunk may end inside a signature, a header, a jxlp index or the
  inner type of a brob box. The parser must not lose its place (`Aligned`), hand
  out anything but payload (`DataFaithful`), or say something different from what
  one big chunk would produce.
* **Order of codestream boxes.** One `jxlc`, or `jxlp` 0, 1, 2 ... up to the one
  marked last, with boxes between (`CodestreamOrdered`); and metadata must not be
  declared complete while a box may still come (`NoMoreIsTrue`, `AnswersFinal`).
* **One reader for all boxes.** What one box leaves behind must not leak into the
  next (`ReaderTypeOK`, `HandledBoxesExact`).
* **Initialisation on a growing prefix.** (`InitializedFromCodestream`,
  `SoundFileInitializes`).
* **A buffer that grows in the middle.** A compressed payload may be longer than its
  decoder's first buffer, or come in pieces; how much was written must be counted once
  (`HandledBoxesExact`, `SoundAccepted`).
* **A cache that must follow a history.** Rendering a keyframe mutates the slots
  the following ones blend on; going back, repeating, skipping, and failing in the
  middle must leave slots and index consistent, and the canvas on which a catch-up
  draws must not show (`PlaysInOrder`, `RefsFollowChain`, `ModularHistoryFree`).

* **Two orders of the same sections.** The codestream stores a frame's sections in
  one order, the decoders ask for them in another; sizes, offsets, payload and
  look-ups are each permuted in their own place (`SectionsFound`,
  `ImplementsSections`), the permutation itself is decoded from untrusted entries
  (`IsPermutation`, `OnlyBadCodesRefused`), and the payload is distributed over
  sections, some of them empty, in chunks (`BytesAtOffsets`, `DoneWhenAllTaken`).

* **One stream read in two ways.** The bit reader refills eight bytes at a time
  where it can and byte by byte at the end, bits may be in the buffer twice, and
  skips and alignments move it (`BufferExact`, `PositionExact`, `ImplementsStream`).
* **State hoisted out of a loop.** The LZ77 window, `num_decoded` and the run in
  progress are copied into locals for a channel and put back behind it; some loops
  bypass them (`WindowIsHistory`, `ReadsLz77`).
* **A budget that is given back.** Allotments nest, unused bits are reclaimed from
  an inner one while the outer ones are open, and the storage shrinks with them (`StorageSuffices`,
  `WriterExact`).
* **Bytes written out of order into borrowed room.** A box's header follows its
  contents, parts of a box lie in the caller's buffer and parts in chunks, and the
  buffer is gone after the call (`HandedOutInOrder`, `CodestreamInParts`, `Drains`).

The full list of hazards, each at its line, is in `PROJECT.json`.

## 2. Modules

| module | what it is |
|---|---|
| `ContainerParser` | the parser: files are constants, one action per case of `emit` |
| `ContainerParser_proofs` | its inductive invariant and the theorems; nothing sound is refused |
| `ContainerStream` | abstract: what reading a container promises |
| `ContainerReader` | EXTENDS ContainerParser with the callback, the box list and jbrd; shown to implement ContainerStream |
| `DecoderSession` | EXTENDS ContainerReader with feed, try_init and the queries |
| `ContainerReader_proofs` | the invariants of reader and session, the refinement of ContainerStream, the answers that are final |
| `AnimationRender` | the keyframe calls and the cache of slots |
| `AnimationRender_proofs` | that the cache follows the animation, and what is shown with it |
| `FrameSections` | abstract: what loading a frame promises to the decoders of its sections |
| `FrameAssembly` | the table of contents, the feeding of the payload, the look-up of sections; shown and proved to implement FrameSections |
| `FrameAssembly_proofs` | its inductive invariant, the invariants, the refinement and the numbering of sections |
| `Permutation` | reading a permutation from its Lehmer code |
| `Permutation_proofs` | what comes out is the permutation with the code read |
| `BitStream` | abstract: a stream of bits, read once, in order |
| `BitReader` | the buffered reader; shown and proved to implement BitStream |
| `BitWriter` | the storage, the allotments and what is written |
| `Bits_proofs` | the reader's invariants and its refinement; that the writer's storage is exact and suffices |
| `Lz77` | abstract: values and runs over the whole history |
| `TokenReader` | the three ways in which a sub-image's values are read; shown and proved to implement Lz77 |
| `TokenReader_proofs` | its invariant, the window and the refinement |
| `EncoderOutput` | the queue, the boxes, the output processor |
| `EncoderOutput_proofs` | what is handed out is the boxes in order, and the parts of the codestream are numbered |
| `MC*` | the files, animations and bounds for TLC |
| `MCFeeding`, `MCCoding`, `MCFramePath` | host several of the machines, see section 3 |

### ContainerParser

A file is a record: its signature (`bare`, `container`, or `other`, with `agree`
the number of bytes that still look like a signature), its length, and `box`, a
function from the positions where boxes start to their headers. Bytes are
positions: an event carries the range `[from, to)` it hands out, so that
"the right bytes" is a statement about positions. Box types other than the
codestream ones and `brob` are members of `AuxTypes`.

`Feed(n)` starts a call with `n` more bytes; each later step of the call is one
`emit` (`Emit`, the disjunction of the cases of `parser.c:94-339`) until it
starves or rejects; `Return` ends the call. `cursor` is how far the parser got
and `fed` how much the caller has; between calls the caller may present
the unconsumed bytes again together with new ones, as the reader's interface
allows. The C state names are kept (`WAITING_SIGNATURE`, `WAITING_BOX_HEADER`,
`WAITING_JXLP_INDEX`, `IN_AUX_BOX`, `IN_CODESTREAM`).

Two oddities are modelled as they are: a header whose size is smaller than itself
makes the parser wait for more input for ever (`parser.c:141-146`), and an
auxiliary box without a size subtracts its payload twice from the length left
(`parser.c:323-333`): the model enters a state of its own there, and claims
nothing beyond it, because what the build then reads is undefined.

### ContainerReader

`ReaderEmit == Emit /\ Callback`: the parser's step and the callback on the event
it produced are one step, as they are in C.

Brotli is external. The stream of the box at p has `Stream(p)` bytes, of which the first
`intact` ones can be decoded; each decoded byte lets the library push out two more
symbols if it has room for them, and `Settled` says when it has nothing more to do: all
is written, or it asks for more input, and may then keep up to `RingLen` symbols back.
What the code does around it is modelled turn by turn. `Turn` is one turn of the loop of
`jxl_brotli_decoder_feed` (`brotli_decode.c:105-136`) with the growth of a full buffer
before it and of one that was too small after it (`Grown`; `BufferLen` stands for the
4096 bytes of the first), and `BrotliFeed` repeats it until the library is settled.
`brotli_decode.c:121` adds the library's `total_out`, which counts from the start of the
stream, to `out_len` in every turn. The first turn is right, and it is the
only one for a payload that comes in one piece *and* inflates into the first buffer; from the second on, in the
same call or in a later one, `out_len` runs ahead of what was written by all that
earlier turns had written, and the places in between hold what the allocator left there
(`Garbage`). `out_len` may even pass `out_cap`; `available_out` then wraps around, and the
library writes as if without a limit. That is undefined behaviour: the model goes on with
the lengths, which are what the code computes, and no property says anything of such a
box. `BrotliRefuses` is the library's error, for damaged data, and the refusal of
bytes behind the end of a stream.

`JbrdFeed`, `JbrdComplete` and `FinalizeJbrd` are the jbrd
box: the header is staged until it parses, the rest is inflated, and the
inflated length must be the announced one. So `out_len` running ahead does not only list
a wrong length there: it refuses a sound file.

Two conditions therefore go with everything claimed of the contents of compressed boxes: the payload was
not `split`, and it inflates into the first buffer (`Fits`, `JbrdFits`). Runs `brob_split`
and `brob_large` show that it is false without the one and without the other.

`Promise == INSTANCE ContainerStream WITH truth <- CodestreamPositions, ...` is
the refinement: the codestream read so far is a gapless prefix of the file's and
the boxes listed are the file's first ones, each at its own position and with its own
type. ContainerStream says "the next one" by counting the positions before it, on both
sides, so that it needs no ordering of the file's boxes.

A compressed box that ends inside its stream is listed with what was inflated
of it: `jxl_brotli_decoder_finish` answers OK whether or not the stream is at its end.

### DecoderSession

`DecoderReturn` sets `partial` when bytes are left over: `decoder_grow_input`
fails then (`decoder.c:582`), and the reader's re-presenting of bytes is thereby
unavailable to the application. `clean` is a history variable: no chunk so far
ended inside a unit the parser takes only as a whole. `TryInit` may be called
between feeds at any time.

### AnimationRender

A sample is the sequence of frames blended into it, so two pictures are equal
exactly if they are made of the same frames in the same way. `RenderCall(k)` is
the entry of `jxl_decoder_render_keyframe` (an index below `animation_chain_upto`
resets the cache); `CatchUp` renders one keyframe in between
(`ensure_animation_refs`); `Show` renders the one asked for. VarDCT keyframes are
decoded alone and blended on their source slot, or on what the canvas holds if that slot
is empty (`Source`, after `sample_base_for_blend`, `composite.c:197-206`); modular ones are
composed by replaying the codestream from the first frame on one canvas.

`surface` is the canvas. The one for the keyframe asked for is fresh, but all those of a
catch-up are drawn on one `temp` (`keyframe_render.c:65-94`), which is not cleared in
between: `jxl_render_init_all_planes` resets the regions of its planes, not their samples. So
from the second keyframe of a catch-up on, one that blends on an empty slot is blended
on the picture of the keyframe before it, which it is not when keyframes are asked for one
by one, and it may save the result. `ReadsCanvas` says when what was on the
canvas can get into a slot.

Failures:
`FailBefore(m)` in front of composing frame m, `FailSaving(m)` while its slot is
being written (the old image is already released, `composite.c:71-97`),
`FailComposed` after a modular keyframe's slots are written, and `FailShowing` after
everything is recorded. A retry is another `RenderCall`.

The pixels are one row of the image, numbered from the left, and a canvas is what
the call's region (`output_region`, the crop, or the whole image) has of it: place c
of the canvas is pixel `PixelAt(c, r)`, and nothing is painted beyond the crop's
width, also not on the full-size canvas of a catch-up. `SetCrop` stores the crop and leaves
the cache alone (`decoder.c:735`). `Source` reads a slot by pixels of the image
(`sample_ref_at_image`), while `ImageOf` saves place c of the canvas as pixel c
(`jxl_ref_image_from_canvas` does not subtract the crop's left and top), so slots that
were saved under a crop that does not begin at the first pixel are shifted. A modular
keyframe blends on the canvas and not on slots, and stays right.

`exact` is a history variable: the slots follow the animation in the pixels 1 .. `exact`.
It shrinks to the width of a crop from the first pixel on; a crop from elsewhere, a
call that is out of line (`OutOfLine`) and a catch-up on a keyframe that reads the canvas
of another (`ReadsCanvas`) make it 0, a failed call that changed slots does
unless a replay puts them right (`ExactAfterFailure`), and a cache
that starts afresh makes it the whole width. It is no part of the code: it says when
`PlaysInOrder` and `RefsFollowChain` speak.

A replay that fails leaves the slots as they were in front of one of its frames, while
`animation_chain_upto` stays. If the keyframe replayed is the next one in line and can be
rendered at all (`ReplayAhead`, `RetryRepairs`), no keyframe reads those slots before it is
replayed again, to its end, and writes them all: nothing is lost. Otherwise something
may be. `modular_encode.c:150` finds only in the middle of a replay that one of the frames before a
modular keyframe is VarDCT-coded and refuses it ("modular render requires modular
frames"); the slots saved up to then are those of an earlier frame, and the VarDCT
keyframe rendered last, asked for once more, blends on them. The same happens when a modular
keyframe is rendered again and fails. The proof of `PlaysInOrder` came upon both:
it did not go through with the slots left alone, and an animation of the kinds modular,
VarDCT, VarDCT, modular, now one of those checked, showed TLC the picture that differs.

Left out: the rows of pixels that filters add around a crop (`compute_padded_regions`;
the region rendered is then a larger one, and the crop is cut from it), and what a
modular frame far to the right of the crop paints beyond the crop's width on the
full-size canvas of a catch-up, which is never shown. Left out, too, is the state of the
colour conversion that a canvas carries (whether its samples were converted), which the
keyframes of a catch-up share like the samples.

### FrameAssembly

A frame is a record: its LF groups, groups and passes (which give the number of
sections, `EntryCount`), the permutation, the sizes in the order stored, and
where frame, payload and codestream begin and end. A byte is its position in the
codestream, so that "the right bytes" is again a statement about positions.
`ReadPermutation`, `LayOut` (one section per step) and `Arrange` are
`jxl_toc_parse` with `jxl_toc_adjust_offsets` (in C, `jxl_frame_parse` calls it next);
`CreateData` makes the sections in the order stored; `CheckPayload` is the
callers' comparison of `total_size` with what the codestream holds. `Feed(n)`
enters `jxl_frame_feed_bytes` with n bytes, and each turn of its loop is a step:
`PassOver` a full section, `Complete` one, `Extend` one; `NoMemory` is an allocation
that fails in it, after which the caller may go on from the pointer
returned (`consumed_out` says 0 then, whatever was stored: `frame.c:236-246`; every
caller in the repository gives the frame up instead). `StoredIndex` is the
look-up by kind and index.

`Promise == INSTANCE FrameSections WITH ...` is the refinement: `want` is, for each
logical section, the data that the codestream stores for it, `got` what the
section found through the table of contents holds.

Left out: the labels of sections. `toc.c:189-194` labels section i with the kind
of `original_to_bitstream[i]`, which is the label of another section in a
permuted frame; the label is read (`modular/group_decode.c:76`) for frames of one
section only, where both numbers are 0.

### Permutation

`ReadEnd`, `ReadEntry` (one entry per step), `Fail`, `Prepare`, `Place` (one per
step) and `PlaceRest` follow `jxl_coding_read_permutation` in order. `code` is what
the bitstream says, valid or not: the decoding of the integers is left out. `temp`
keeps the stale value that `memmove` leaves at its end, as the array in C does: the
range check is what keeps it from being used.

### BitReader

The stream is `len` bytes, and a bit is its number in it. The buffer maps 64 places
to the sets of stream bits that were OR'd into them: `{p}` is bit p, `{}` is the zero
that shifting leaves, and a set of two would be a corrupted place. `RefillWord` takes
eight bytes at once and counts only the whole bytes that fit: what lies above
`remaining_buf_bits` is in the buffer already and will be OR'd in again, harmless
only as long as it is the same bit. `RefillBytes` is the end of the stream.
`ReadBits(n, k)` looks at n bits and consumes k (read and peek), `ReadSymbol` is a
prefix symbol with its extra bits behind one refill, `SkipBits`, `InitAtBit` (a
reader repositioned, the status of its skip dropped) and `ZeroPadToByte` are the
operations that move it. `Stream == INSTANCE BitStream` is the refinement. After a
skip beyond the end (`lost`), `num_read_bits` and the bytes disagree and nothing is
promised. The readers of numbers (u32, u64, f16, enums) are compositions of reads
and are left out.

### Lz77 and TokenReader

A sub-image is its tokens (values, and runs with a length and a distance), its
channels and the kind of coding. A channel is `slow` (from the third row on, and
away from the edges, ANS values are read with the decoder's LZ77 state hoisted into
`slot`: `HoistBegin`, `HoistCommit`), `plain` (always through the decoder's own
state) or `fast` (in RLE mode through a run length of its own, `rle`). `CopyValue`,
`ReadLiteral`, `ReadRun` and `RefuseToken` read one value through the window, on
whichever copy of the state is current (`Cur`); `RepeatValue`, `ReadRle`, `RefuseRle`
and `ReadBehindEnd` read one through the run length; `NextChannel` keeps or resets it
as `subimage_decode.c` does. `Store` includes the growth of the window's array, which
may fail. `Special` stands for the table of 120 special distances, of which any may
be given; the second one must be that of the value before.

A prefix-coded RLE stream is read by a path that trusts it: no length is checked,
a length of 32 bits wraps around, and behind the end it reads zeros. `Garbled` says
when that has happened; nothing is promised from there on. Three things are not
modelled. The width of the samples also takes part in how a channel is read: the trusted
path is taken for grids of 16-bit samples only, a fast prefix-coded channel of 32-bit
ones goes through `read_token` (`channel_decode.c:428-462`), the checked path that the model
has for ANS-coded ones, and the RLE loop refuses a 32-bit grid
(`channel_decode.c:329-331`), which the model reads. The others are
`num_decoded` wrapping at 2^32, and that the extra bits of a token are read
by a function that answers zeros at the end of the data
(`integer_read_inline.h:28`), so that a stream may end early inside a token unnoticed.

`Lz == INSTANCE Lz77` is the refinement: the values handed to the channels are
what LZ77 with the whole history yields, whatever the window and the way of reading.

### BitWriter

Memory is modelled bit by bit, as in BitReader: the k-th bit written is `{k}`, what
`malloc` leaves is `Junk`. `Allot(max)` is `jxl_bit_writer_with_max_bits` before its
body, `Write(n)` a write within the current allotment (a store of eight bytes, of
which the first is OR'd into and the others are overwritten), `Reclaim` the code
behind the body: whole unused bytes are given back and the ancestors are not charged
for what was used. `Moved` is the reallocation, which zeroes exactly one byte behind
those in use. `ZeroPad`, `AppendByteAligned` and `TakeBytes` complete the interface.

### EncoderOutput

Byte i of the n-th box is `<<n, i>>`. `TakeFrame` turns a frame into its plan, the
boxes to be written for it (`BoxesOf`, after `process_one_enqueued_input`): file
type and level, `jxlp` with the codestream's header and `jbrd` if reconstruction
data is stored, metadata boxes, and the frame's own box; `BeginBox` enters one,
`PutInCaller` and `PutInChunk` place as many bytes as `get_buffer` finds room for,
`Finalize` moves the final position behind it, and `Flush` and `FlushDone` are the
loop of `flush_output`. A box is a list of puts in the order in which the code
makes them: contents, then the header in front. `Whole` puts are taken in one
piece. `chunks` are the intervals of the output processor's map; an unowned one
stands for bytes that lie in the caller's buffer already. The buffer itself,
`caller`, is new and empty at every call, which is what makes a byte left there
without a chunk of its own a lost byte.

`EncodeFails` loses the frame in hand. The application is told so and does not call
again in the model; `encode.h` does not say what a further call would do.

Whether a frame is the last one is decided when it is taken from the queue
(`encode.c:544`): an application that lets the encoder take its last frame and
closes the input only then gets a codestream without an end, and the model has these
sessions. `encode.h:82` asks for the input to be closed before the final call, so
nothing is claimed of them but that their parts are numbered and handed out.

## 3. The runs

| run | question | result |
|---|---|---|
| `feeding` | *parser*: place, payload, order, finality and kind on every cut of 117 files; a sound file is consumed; *reader and decoder*: the reader alone and under the decoder: ContainerStream implemented, boxes exact (compressed ones in one piece, within the first buffer) and all listed, chunks cut between headers accepted; initialised from the file's own codestream; answers final; a sound file initialises | holds |
| `coding` | *permutations*: what is accepted are exactly the Lehmer codes, and what comes out is the permutation with that code; *bit reader*: buffer and position exact, BitStream implemented; *bit writer*: storage exact and sufficient; *tokens*: the window is the history, Lz77 implemented | holds |
| `frames` | *assembly*: sections found, filled with their own bytes at their offsets, complete exactly with the payload, FrameSections implemented; *animation*: in-line keyframes look as when played, the cache follows its index, both in the pixels of every crop so far, and modular keyframes depend neither on history nor on other crops; *output*: boxes handed out whole and in order, parts numbered, a closed encoder drains | holds |
| `decoder_chunks` | any chunks are accepted (`PLAN.md:169`) | violated: a cut inside a header is refused |
| `brob_split` | boxes within the first buffer are exact (`test_aux_box.c:112`, of one piece) | violated: a compressed box in two pieces has the wrong length |
| `brob_large` | boxes in one piece are exact (`test_aux_box.c:112`, of eight bytes) | violated: one that outgrows the first buffer has the wrong length |
| `exif_at_end` | at the end of a file the Exif query is decided (`decode.h:34`) | violated: the end of the last box is never noticed |
| `any_index` | any keyframe at any time (`decode.h:48`) | violated: caught up on, a keyframe blends on the picture of the one before it; also the same one again, or one that resets the canvas |
| `frames_skipped` | no frame that fills a slot is skipped (`PLAN.md:59`) | violated: animated sessions never decode hidden frames |
| `crop_played` | played under one crop, each keyframe is that part of the whole one (`test_crop_conformance.c:5-7`) | violated: slots saved under a crop are shifted by its left edge |
| `rle_mixed` | run-length reads only where all channels are fast (`channel_decode.c:859`) | violated: a fast channel in front of a slow one is read as runs, behind the window's back |
| `container_switch` | a container only from the beginning (`encode.c:900`) | violated: a frame with metadata adds boxes to a bare codestream |

`feeding`, `coding` and `frames` each host several machines that do not run
together: a variable (`driver`, `machine`) chosen at the start says which one runs, and
the others rest in one initial state (in `feeding` the three are layers: the parser alone,
the reader with the parser in it, the decoder with both). Each property is about one of
them and is trivially kept by those that it does not concern. This keeps the questions together that belong to one
part of the path (feeding, coding, frames) and costs no interleaving. The violated
claims run on the machine alone.

The `brob_split` divergence was confirmed on the code: the stream of
`tests/unit/test_aux_box.c`, cut after its fourth byte or later, comes out with a
length between 9 and 16 instead of 8.

### Bounds, and why they are enough

* *Files.* Every chain of up to two boxes from a palette with each kind of box
  (sized, unsized, 16-byte header, empty payload, each jxlp position), each
  defective box alone, after and in front of another, and longer chains for the
  jxlp order. A box interacts with its neighbours through the parser's state only,
  and each state is left by one box and entered by the next, so pairs reach each
  transition; triples are there for the jxlp index. Payloads of 1 to 5 bytes are
  cut at every byte. The parser's part of `feeding` allows every cut of every file; header and signature lengths are the
  real ones (8, 16; 2, 12).
* *Reader and session.* Eight sound lists and twelve damaged ones, a bare codestream
  and a file that is none. `BufferLen = 4` stands for 4096: streams of one or two bytes
  inflate into it, one of three (jbrd) makes it grow once and one of five (brob) more often, in one
  piece or in several, and one of eight ends too early. `RingLen = 2` lets the library keep the
  symbols of one byte back. Streams that cannot be decoded to their end are a brob and a jbrd box. `JbrHeaderLen = 2` and `ImageHeaderLen = 3` stand for
  "parses from there on"; both can be reached in one chunk or byte by byte.
* *Animations.* Two pixels are the least that tell a frame that covers the image
  from one that does not; thirteen animations of three to five frames have a slot that
  feeds on itself, an empty slot blended on in a catch-up, alternating slots, a frame that resets the canvas in the middle,
  hidden and reference-only frames, modular and mixed encodings. `MaxCalls = 4`
  allows forward, back, repeat and retry after a failure in one session. The crops
  are each half and the whole image, set and changed between any two calls: one that
  begins at the first pixel, one that does not, and one wider than the one before.
* Blend modes are `replace` and `add`: the first ignores what lies under, the
  second depends on it, and that is the distinction the cache is about.

* *Frames.* One section (empty or not); five sections in each of the 120 orders
  with two size vectors that have empty sections in front, inside, at the end and
  next to each other; ten sections (2 LF groups, 3 groups, 2 passes: the least that
  tells passes from groups in the numbering) in the identity, the reversed and a
  mixed order, which is no involution; a codestream that ends in the payload; a
  frame over the limit. `MaxEntries = 10` stands for 65536 and is hit and exceeded
  by one frame each. `MaxRefusals = 1`: one allocation fails, at any point.
* *Bits.* Streams of 1 and 15 bytes lie on both sides of the eight bytes a word
  refill needs; 15 is one word and seven single bytes. Widths 0, 3, 32 and 70 are
  nothing, less than a byte, the most that may be read and more than the buffer
  (to skip, or refused). Positions stop past 120, the end of the longer stream. The
  writer's `Sizes` end at the 56 bits one call may write and just beyond; `Budgets` are
  less than a byte, between and more than a word; three allotments nest; with
  `MinCapacity = 2` instead of 64 storage moves at once.
* *Tokens.* A window of 4 (2^20 in the code) is overrun by 15 pixels; runs are up to
  `MaxLength = 20`, with one token beyond; distances are special ones (the row above, the
  value before, the row above to the right), plain ones, and one beyond the window.
  Every sequence of up to three tokens meets channels wide enough for a hoisted loop,
  channels without one, empty ones, and fast ones. `Capacities` make the window's
  array grow once.
* *Encoder.* Two frames, of which each has no, one or two metadata boxes, and every
  time at which the input may be closed; bodies of 3 bytes and headers of 2, 3, 1, 2
  and 1 stand for the real 8, 16, 4, ...: what matters is whether a put is whole or
  split, and `Rooms = {1, 2, 5, 20}` are less than a header, a header, less than a box
  and more than all. Container, storing of JPEG metadata and large boxes are all
  eight ways.
* *Permutations.* All sizes up to 4 with none, one or two fixed places, every
  sequence of up to four entries from 0 to 3: in range, too large for their index
  or for `skip`, and too many.

### Fairness

`FairSpec` of the parser and `ReaderFairSpec` have weak fairness of the whole
next-state relation: a call in progress finishes (it is a loop in one thread) and
the caller goes on feeding while there is input. Nothing is assumed of how it cuts
the input. `SessionFairSpec` adds weak fairness of `TryInit`: the application polls
as the header tells it to. In `feeding` these are stated of each driver's own steps.
`OutputFairSpec` has weak fairness of `Working` (a call runs to its end) and of
`Asking`: the application calls again, with some room, until it is told that all is out
("Call repeatedly until status is not JXL_NEED_MORE_OUTPUT", `encode.h:71`). Nothing
forces it to add frames, to close the input or to offer much room. The machines of
`coding`, the assembly of frames and the animation have safety properties only.
Deadlock is not checked where a run's system really stops: a file ends, a failed
decoder is given up, a sub-image is read once, a drained encoder is done, and the
animations stop at their bound of calls.

## 4. Proofs

`ContainerParser_proofs` proves, for every set of files and every set of
auxiliary types (assumptions `FilesAssumption` and `AuxAssumption` only), of
`Spec`: `TypeCorrect`, `AlwaysAligned`, `AlwaysDataFaithful`,
`AlwaysCodestreamOrdered`, `AlwaysNoMoreIsTrue`, `KindNeverChanges` and
`SoundNeverRefused`. The assumptions
describe what a file is (a box's end is where the next begins, a file's boxes lie
in it, behind the signature if it has one); they allow damaged files.

None of the properties is inductive. `Inv` adds

* `CallInv`: a call in progress has not failed;
* `PlaceInv`, by cases of the detect state, what the parser knows of its place:
  `SignatureInv` (nothing consumed), `HeaderInv` (at a box start or at
  the end), `JxlpInv` (behind the header of a jxlp box, the index missing), `BareInv`,
  `BoxedInv` and `AuxInv` (inside the box whose start is `pending_header`, with
  `bytes_left` the distance to its end if it is sized). `DataFaithful` is a statement about
  one event, and it is `BoxedInv` and `AuxInv` that make the next one true;
* `OrderInv`: `accepted`, the codestream boxes entered, is what the order state says
  (none; one jxlc; jxlp 0 .. n-1, the last flag that of the last one). `CodestreamOrdered`
  is about `accepted` only, and whether the next box may be accepted depends on the
  order state;
* `NoMoreInv`: the flag is set only in a codestream that runs to the end, with no
  box beyond the cursor.

Each case of `emit` has a lemma that it preserves `Inv` (`JxlcStep`, `JxlpStep`,
`AuxHeaderStep`, ...), `InvStep` combines them, `AlwaysInv` is the induction and the
theorems follow from it. `SoundNeverRefused` needs more, `SeenInv`: every jxlp
box in front of the cursor is one that was accepted, so that the index expected is the
next one's.

`ContainerReader_proofs` proves, for every file, every brotli stream (its length, damage,
bytes behind its end), every jbrd box and every size of the first buffer
(`BufferAssumption`), of the reader `ReaderTypeCorrect`,
`BoxesAlwaysExact`, `SoundAlwaysAccepted` and
`ReaderImplementsStream == ReaderSpec => ImplementsContainerStream`, and of the decoder in front of it
`AlwaysInitializedFromCodestream`, `CleanChunksAlwaysAccepted` and `AnswersAlwaysFinal`. Of
compressed boxes, `BoxesAlwaysExact`, `SoundAlwaysAccepted` and `CleanChunksAlwaysAccepted` speak under the
two conditions of section 2, one piece and the first buffer; raw boxes need neither. The
reader's steps are the parser's with a callback, so `ReaderInv` starts from the parser's invariant,
which says where the parser stands, and adds what the callback has made of the bytes
behind it:

* `StreamInv`, `ListInv`: the codestream and the list hold all that the file has of them
  before the cursor, in order, less the box being read. The refinement follows: a step that
  moves the cursor over payload appends exactly the positions passed;
* `OpenInv`, `WholeInv`, `JbrdInv`: the box being read is the one at the parser's pending
  header, and its reader (raw, brotli, jbrd) holds its payload up to the cursor, all of it
  or nothing if it came in one piece. This is what `BoxesAlwaysExact` is about when the box ends
  (`ExactInv`), and why a sound file passes (`AcceptedInv`);
* `LastInv`: the list takes a box for the last one only if the parser has said that none
  follows, or the box runs to the end of the file. An answer to a query changes when a box
  is listed or when the list is complete; `AnswersAlwaysFinal` rests on both happening at most
  once for the first box of a type.

`SessionInv` adds that what was initialised had a header (`InitializedInv`), and that in a
session of clean chunks no unit of the container is cut (`CleanInv`) and no call left bytes
behind (`PartialInv`).

`AnimationRender_proofs` proves, for every set of animations (of any number of frames of
all kinds over an image of any width, `AnimationsAssumption`), crops (`CropsAssumption`) and calls,
`AnimationTypeCorrect`, `AlwaysPlaysInOrder`, `AlwaysRefsFollowChain` and
`AlwaysModularHistoryFree`. `AnimationInv` adds to the types

* `ChainInv`: in the pixels that count, each slot holds what the animation played in order
  leaves in it after keyframe `animation_chain_upto`, or the next keyframe in line is a replay that
  can be rendered and saves that slot (`HoldsChain`). The second case is what a failed
  replay leaves;
* `SurfaceInv`: only a catch-up has anything on its canvas, and once it has, the keyframe
  being rendered is not the last one once more. As long as `exact` is not 0, no keyframe
  of it reads that canvas, so that it saves what it would on a blank one (`CanvasUnread`);
* `InLineInv`: the keyframe being rendered is the next one in line, or the last one once more
  if it does not feed on the slot that it writes (`NextOrAgain`);
* `PicturePlays`, `PictureIsCut`: `PlaysInOrder` and `ModularHistoryFree` of what was shown.

What carries the step is about two drawings side by side: where two stores agree in the pixels
1 .. e, so do the canvas and the stores after a VarDCT keyframe (`VardctAgrees`) and, whatever the
stores held, the canvas and every slot saved after a replay (`ReplayAgrees`, `ReplayCuts`); a
replay leaves the other slots alone (`ReplayLeaves`). `NextAgrees` and
`AgainAgrees` say of a keyframe in line and of one rendered again that they draw what
playing in order does. Both drawings are recursive functions of the model (`Replay`,
`InOrder`), and to reason about them at all one must know that a function with these equations
exists: `Recursion` shows it for any n steps, `ReplayUnfolds` and `InOrderUnfolds` use it,
and `CountingUp` (a set of numbers that holds 0 and with i also i + 1, from the
well-foundedness of `<`) is the induction.

`FrameAssembly_proofs` proves, for every set of frames (`FramesAssumption`: sizes
and a permutation of any number of sections) and every bound, `TypeCorrect`,
`AlwaysBytesAtOffsets`, `AlwaysDoneWhenAllTaken`, `AlwaysSectionsFound` and `Refines == Spec =>
ImplementsSections`. `Inv` adds

* `LaidInv`, `MonotoneInv`: the offsets laid out so far are where the stored
  sections begin, and those are in increasing order, which keeps the subtraction
  of `Adjusted` from going below zero and the last section's end the payload's;
* `OrderInv`, `TocInv`, `DataInv`: how the tables are permuted at each phase;
* `BytesInv`: a section holds the first of its own bytes; `EmptyInv`: nothing
  before the payload is admitted;
* `CursorInv`: sections before the one being read are full, those behind it empty,
  and the position reached is the end of what the current one holds. This is what
  makes the next `Receive` continue a section (`SpanConcat`);
* `IdleInv`: no call that took something returns in front of a section that
  lacks nothing. `DoneWhenAllTaken` at the end of a call rests on it, and it is
  why `Complete` must not return when the chunk is used up.

For the refinement, a step before loading changes neither `want` nor `got`
(`NothingYet`: both are empty though the tables change), and a step while loading
leaves the tables alone and only appends (`Grows`, `SpanStarts`).

For the look-up (`AlwaysSectionsFound`), the formulas that number the sections are shown to
follow the order of the format (`NumbersFollowOrder`) and to leave no gap (`NumbersLeaveNoGap`), for all
numbers of LF groups, groups and passes; then the number of a section is the count of those
in front of it (`NumberCountsPreceding`).

`Permutation_proofs` proves, for every set of codes, `TypeCorrect`,
`AlwaysPermutation`, `AlwaysHasLehmerCode` and `AlwaysOnlyBadCodesRefused`. For the first two: the values placed and the first `Movable - placed` of `temp`
are, together and without repetition, all the values that may move; an entry in range
takes one of the latter. For the code, `LehmerInv` adds that the values left are in
increasing order (`SortedInv`), so that an entry is the number of smaller values left, and
that those are the ones that come to lie behind the place (`RankInv`); the counts are compared through
one-to-one mappings (`SameSize`).

`Bits_proofs` proves of the reader, for streams of every length and requests of every width
(`StreamAssumption`), `BitTypeCorrect`, `BufferStaysExact`, `PositionStaysExact` and
`ReaderImplementsStream == BitSpec => ImplementsStream`. `BitInv` is nearly the
conjunction of the invariants: a reader is `Sound` if every place of its buffer holds
the bit that belongs there or nothing, and what counts is that `Refill`, `Drop` and
`SkipFrom` each turn a sound record into a sound one (the lemmas are about records, so
that they chain within one operation). For the refinement a refill must also leave
the buffer `Full`: 56 bits or all that the stream has, which is why EOF is answered
exactly at the end.

Of the writer it proves, for every set of budgets and widths (`WriterAssumption`),
`WriterStaysExact` and `StorageAlwaysSuffices`. `WInv` adds to these two and to the
types `Charged`: what an open allotment wrote itself, without its inner ones, stays
within what it asked for, and `open` is the sum of what it and its ancestors asked for. An inner allotment that
gives bytes back is paid for by crediting all its ancestors; crediting only the
parent would break `Charged` two levels up. `StorageSuffices` is then what keeps the
unchecked eight-byte stores inside the eight bytes of slack.

`TokenReader_proofs` proves, for every window size, stream and table of special
distances (`WindowAssumption`, `LengthAssumption`, `SpecialAssumption`,
`ImagesAssumption`, `WidestAssumption`), `WindowAlwaysHistory` and
`ReadersImplementLz77`. `LzInv` adds to the window's contents that a run in progress
stays within reach (`InReach`): it begins at most a window behind the values read,
and both ends move on by one per value, so that it never reads a place that was
overwritten. `RleInv` is the other part: until the stream is `Garbled`, the run length
repeats the last value read. The second theorem has a hypothesis, `Unmixed`: in RLE mode
all channels of a sub-image are fast or none is. The bitstream does not guarantee it, and
the code's own comment says that it handles the other case: run `rle_mixed` shows that it does
not. Without a hypothesis the theorem is false.

`EncoderOutput_proofs` proves, for every set of frames and rooms, any number of frames
and all sizes of headers (`OutputAssumption`), `AlwaysHandedOutInOrder` and
`AlwaysInParts`. `OutputInv` strengthens the first. Boxes follow each other
(`Chained`); the three positions are in their order, and inside a box what is final
ends before it (`PlaceInv`). `ChunksInv` is the heart: a chunk holds bytes of one
box in their place, no two chunks share a position, and none overlaps what the box has
still to put, which is how a header can follow its contents; one that is not the
encoder's own lies in the caller's buffer with room to its end, and the buffer holds its
bytes. `StageInv` says that between calls no chunk lies in the caller's buffer, which
is why `ProcessOutput` may replace it: a call returns only with everything written
final and flushed or in chunks of the encoder's own. That chunks tile what is
waiting is not part of it: it decides whether output goes on (`Drains`), not whether
it is right. For the second, `NumberedInv` ties `jxlp_counter` to the last part begun
and adds what the plan in hand promises: once a box said that it is the last, the
input is closed and the queue and the plan are empty.

Every invariant, action property and refinement that a passing run checks is a theorem
(that of Lz77 with the hypothesis above).
*Only model-checked* is liveness (`SoundFileConsumedByParser`, `EveryBoxListedByReader`,
`SoundFileInitializes`, `Drains`), which needs fairness and ENABLED, out of this prover's reach.
The library's induction theorems, and its theorems on recursive functions, take
an operator as a parameter and cannot be instantiated by the provers at hand; where a proof needs
induction over numbers it is made from the least element of a set
(`NatLessThanWellFounded`, `WFMin`), which covers functions that recur over an interval of
numbers but not RECURSIVE operators; no module with a theorem uses one.

## 5. Not modelled, and why

* Allocation failures in the container layer: each ends the call with an error and
  the decoder is not used again. In rendering, where a call may be retried, they
  are modelled.
* Patches, LF frames, still images with prerequisite frames, frames wholly outside
  the image. Planned.
* Memory that early returns lose: `jxl_toc_parse` returns from the middle of its
  loops (`toc.c:95-123`) without freeing what it allocated. No state modelled
  depends on it.
* Sample arithmetic (transforms, filters, colour, upsampling, splines, noise), MA
  trees and predictors, the tables of ANS and prefix codes, JPEG coefficients and
  bitstream writing, the encoder's clustering and histograms, and vendored code.
  These are most of the repository's lines: the implementation has some 92 000, of which
  `src/` holds large numerical kernels (`simple_lossless.c`, `enc_ans.c`,
  `enc_ma.c`, `reconstruct.c`, SIMD variants of each filter), tests, tools and
  CMS code. They keep no state between calls and nothing interleaves with them;
  what can go wrong in them is arithmetic over large arrays, which reference images
  test well and TLC cannot enumerate. The modelled lines are a few percent of the
  whole and most of its stateful control.
* In the encoder: parsing of the JPEG input, settings, and what a further call does
  after an error was returned (bytes that had been placed in the caller's buffer
  are then not flushed; the header does not say that one may go on).

## 6. Plan

Done: 1. ContainerParser; 2. ContainerReader over ContainerStream; 3.
DecoderSession; 4. AnimationRender; 5. proofs of ContainerParser; 6. Permutation
and its proofs; 7. FrameAssembly over FrameSections and its proofs; 8. BitReader over
BitStream and its proofs; 9. TokenReader over Lz77 and its proofs; 10. BitWriter
and its proofs; 11. EncoderOutput and its proofs;
12. proofs of ContainerReader, with its refinement, and of DecoderSession; 13. the
remaining invariants of Permutation and FrameAssembly; 14. proofs of AnimationRender.

Next, in this order:

1. `AnimationRender`: patches, LF frames, still images' prerequisite frames.
2. The allocator (emulated realloc, size headers) and the rational arithmetic of
   frame durations at small widths.

A new component joins one of the runs that host several.
