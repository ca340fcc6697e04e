------------------------------- MODULE Loader -------------------------------
(***************************************************************************)
(* The boot loader of the payload (loader/start.S, loader/loader.c): it    *)
(* moves itself to its load address, moves the packed program to the top   *)
(* of the memory it may use, and unpacks it below, towards the part that is*)
(* not unpacked yet, over its own copy of the packed program.              *)
(*                                                                         *)
(* One action per round of a copy loop and per token of LZ_Uncompress      *)
(* (bdk/libs/compr/lz.c).                                                  *)
(***************************************************************************)
EXTENDS Lz77

CONSTANTS Images,          \* programs that are packed (sequences of bytes)
          MemTop,          \* memory is 0 .. MemTop - 1
          LDR_LOAD_ADDR,   \* where the loader runs
          Starts,          \* where it may have been put
          Text,            \* bytes of its code, up to the packed program
          CfgAt,           \* place of b_cfg in the loader and in the program
          CfgSize,         \* sizeof(boot_cfg_t)
          IPL_LOAD_ADDR, IPL_RELOC_TOP

VARIABLES pc,
          image,     \* the program as it was built
          parts,     \* payload_00 and payload_01
          start,     \* where this loader has been put
          mem,
          k,         \* bytes moved, then words left
          part,      \* 1 or 2: the part that is unpacked
          marker, inpos, outpos

vars == <<pc, image, parts, start, mem, k, part, marker, inpos, outpos>>

Address == 0 .. (MemTop - 1)
Unknown == -1      \* a byte of the memory that nobody has set

Align(n, a) == ((n + a - 1) \div a) * a

\* The linker puts the second part on the next word.
SecondAt(p) == Text + Align(Len(p[1]), 4)
IplSize(p) == Align(SecondAt(p) + Len(p[2]), 16)

ASSUME LoaderAssumption ==
  /\ Images \subseteq Seq(Byte) \ {<<>>}
  /\ Text % 4 = 0 /\ CfgAt + CfgSize <= Text
  /\ LDR_LOAD_ADDR + Text <= IPL_LOAD_ADDR
  /\ \A s \in Starts : s >= LDR_LOAD_ADDR

\* The file: code with b_cfg, then the parts.
File(p, a) ==
  IF a \in CfgAt .. (CfgAt + CfgSize - 1) THEN 1
  ELSE IF a < Text THEN 0
  ELSE IF a - Text + 1 \in DOMAIN p[1] THEN p[1][a - Text + 1]
  ELSE IF a - SecondAt(p) + 1 \in DOMAIN p[2] THEN p[2][a - SecondAt(p) + 1]
  ELSE Unknown

TypeOK ==
  /\ pc \in {"move", "begin", "relocate", "enter", "unpack", "cfg", "run"}
  /\ mem \in [Address -> Byte \cup {Unknown}]
  /\ k \in 0 .. MemTop
  /\ part \in {1, 2}
  /\ marker \in Byte
  /\ inpos \in 0 .. Len(parts[part])
  /\ outpos \in 0 .. Len(image)

Init ==
  /\ image \in Images
  /\ parts = Packed(image)
  /\ start \in Starts
  /\ mem = [a \in Address |-> IF a >= start THEN File(parts, a - start) ELSE Unknown]
  /\ pc = IF start = LDR_LOAD_ADDR THEN "begin" ELSE "move"
  /\ k = 0
  /\ part = 1
  /\ marker = 0 /\ inpos = 0 /\ outpos = 0

\* n bytes from `from' to `to'.
Copied(to, from, n) ==
  [a \in Address |-> IF a \in to .. (to + n - 1) THEN mem[from + (a - to)] ELSE mem[a]]

-----------------------------------------------------------------------------
\* _reloc_ipl, four registers at a time, upwards.  It runs above the memory that
\* is moved.
Move ==
  /\ pc = "move"
  /\ mem' = Copied(LDR_LOAD_ADDR + k, start + k, 16)
  /\ IF k + 16 = IplSize(parts) THEN k' = 0 /\ pc' = "begin"
                                ELSE k' = k + 16 /\ pc' = pc
  /\ UNCHANGED <<image, parts, start, part, marker, inpos, outpos>>

\* Both parts, with what aligns the second.
payload_size == SecondAt(parts) + Len(parts[2]) - Text

Begin ==
  /\ pc = "begin"
  /\ k' = Align(payload_size, 4) \div 4
  /\ pc' = "relocate"
  /\ UNCHANGED <<image, parts, start, mem, part, marker, inpos, outpos>>

Payload == LDR_LOAD_ADDR + Text

\* Where the packed program goes.
Source == IPL_RELOC_TOP - Align(payload_size, 4)

\* Mutant: one word more than there are.
RelocateOnceMore ==
  /\ pc = "relocate"
  /\ mem' = Copied(Source + 4 * (k - 1), Payload + 4 * (k - 1), 4)
  /\ k' = k - 1
  /\ pc' = IF k < 0 THEN "enter" ELSE pc
  /\ UNCHANGED <<image, parts, start, part, marker, inpos, outpos>>

\* Mutant: upwards.
RelocateUpwards ==
  /\ pc = "relocate"
  /\ LET word == Align(payload_size, 4) \div 4 - k
     IN  mem' = Copied(Source + 4 * word, Payload + 4 * word, 4)
  /\ k' = k - 1
  /\ pc' = IF k = 1 THEN "enter" ELSE pc
  /\ UNCHANGED <<image, parts, start, part, marker, inpos, outpos>>

\* while (bytes): word by word, downwards.
Relocate ==
  /\ pc = "relocate"
  /\ mem' = Copied(Source + 4 * (k - 1), Payload + 4 * (k - 1), 4)
  /\ k' = k - 1
  /\ pc' = IF k = 1 THEN "enter" ELSE pc
  /\ UNCHANGED <<image, parts, start, part, marker, inpos, outpos>>

src_addr == IF part = 1 THEN Source ELSE Source + (SecondAt(parts) - Text)

in(i) == mem[src_addr + i]

\* LZ_Uncompress returns to loader_main.
Return ==
  /\ inpos' = 0
  /\ IF part = 1 THEN part' = 2 /\ pc' = "enter" ELSE part' = part /\ pc' = "cfg"

\* The marker comes first; nothing is unpacked from nothing.
Enter ==
  /\ pc = "enter"
  /\ IF parts[part] = <<>>
     THEN Return /\ marker' = marker
     ELSE marker' = in(0) /\ inpos' = 1 /\ pc' = "unpack" /\ part' = part
  /\ UNCHANGED <<image, parts, start, mem, k, outpos>>

out == IPL_LOAD_ADDR + outpos

\* The end of a round: read bytes are used up, written ones are out.
Round(read, written) ==
  /\ outpos' = outpos + written
  /\ IF inpos + read < Len(parts[part])
     THEN inpos' = inpos + read /\ UNCHANGED <<pc, part>>
     ELSE Return
  /\ UNCHANGED <<image, parts, start, k, marker>>

PlainCopy ==
  /\ pc = "unpack" /\ in(inpos) # marker
  /\ mem' = [mem EXCEPT ![out] = in(inpos)]
  /\ Round(1, 1)

\* Mutant: the zero is left in the input.
MarkerItselfKeepsZero ==
  /\ pc = "unpack" /\ in(inpos) = marker /\ in(inpos + 1) = 0
  /\ mem' = [mem EXCEPT ![out] = marker]
  /\ Round(1, 1)

MarkerItself ==
  /\ pc = "unpack" /\ in(inpos) = marker /\ in(inpos + 1) = 0
  /\ mem' = [mem EXCEPT ![out] = marker]
  /\ Round(2, 1)

\* Byte after byte: a string may repeat what it has just written.
CopyString ==
  LET length == LZ_ReadVarSize(mem, src_addr + inpos + 1)
      offset == LZ_ReadVarSize(mem, src_addr + inpos + 1 + length.size)
  IN  /\ pc = "unpack" /\ in(inpos) = marker /\ in(inpos + 1) # 0
      /\ mem' = [a \in Address |->
                   IF a \in out .. (out + length.value - 1)
                   THEN mem[out - offset.value + ((a - out) % offset.value)] ELSE mem[a]]
      /\ Round(1 + length.size + offset.size, length.value)

\* memcpy of b_cfg into the program
CopyBootCfg ==
  /\ pc = "cfg"
  /\ mem' = Copied(IPL_LOAD_ADDR + CfgAt, LDR_LOAD_ADDR + CfgAt, CfgSize)
  /\ pc' = "run"
  /\ UNCHANGED <<image, parts, start, k, part, marker, inpos, outpos>>

Running == pc = "run" /\ UNCHANGED vars

Next == \/ Move \/ Begin \/ Relocate \/ Enter \/ PlainCopy \/ MarkerItself \/ CopyString
        \/ CopyBootCfg \/ Running

Spec == Init /\ [][Next]_vars

-----------------------------------------------------------------------------
\* Properties

PartAt(p) == IPL_RELOC_TOP - 4 * ((Len(parts[1]) + 3) \div 4 + (Len(parts[2]) + 3) \div 4)
             + IF p = 1 THEN 0 ELSE 4 * ((Len(parts[1]) + 3) \div 4)

\* The program is unpacked towards the packed one, and in the end over it: what
\* is not read yet is still there, in both parts, at every token.
NotOvertaken ==
  /\ pc = "unpack" => \A i \in inpos .. (Len(parts[part]) - 1) :
                        mem[PartAt(part) + i] = parts[part][i + 1]
  /\ pc \in {"enter", "unpack"} /\ part = 1 =>
       \A i \in 0 .. (Len(parts[2]) - 1) : mem[PartAt(2) + i] = parts[2][i + 1]

\* The program that is started is the one that was built, with the boot
\* configuration of the loader in its place, whatever it contains and wherever the
\* loader was put: packing, two moves, and unpacking undo each other.
Unpacked ==
  pc = "run" =>
    /\ outpos = Len(image)
    /\ \A i \in 0 .. (Len(image) - 1) :
         mem[IPL_LOAD_ADDR + i] = IF i \in CfgAt .. (CfgAt + CfgSize - 1) THEN 1
                                  ELSE image[i + 1]

\* lz.c:52 "the worst case compression result is (257/256)*insize + 1": the
\* buffers of lz77 and the limits of the build rely on it.
PackedFits ==
  \A p \in {1, 2} :
    LET insize == IF p = 1 THEN Len(image) \div 2 ELSE Len(image) - Len(image) \div 2
    IN  Len(parts[p]) <= insize + (insize \div (2 * Base)) + 1
=============================================================================
