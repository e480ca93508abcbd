----------------------------- MODULE AddressMap -----------------------------
(***************************************************************************)
(* How an address of the protocol becomes addresses of a console: the      *)
(* memory domain that it names, and for the cartridge's ROM the places on  *)
(* the console's bus, in pieces that never cross a bank.                   *)
(***************************************************************************)
EXTENDS Integers, Sequences

Page == 32768       \* 0x8000, what a bank holds of the ROM under LoROM
Bank == 65536       \* 0x10000
Half == 4194304     \* 0x400000, where mappings change banks
Mirror == 8388608   \* 0x800000
CartRam == 14680064 \* 0xE00000
Wram == 16056320    \* 0xF50000

(* AddressInfo::create *)
Domain(a) ==
  CASE a < CartRam -> "CARTROM"
    [] a >= CartRam /\ a < Wram -> "CARTRAM"
    [] OTHER -> "WRAM"

Offset(a) ==
  CASE Domain(a) = "CARTROM" -> a
    [] Domain(a) = "CARTRAM" -> a - CartRam
    [] OTHER -> a - Wram

(* RomHeader::rom_mapping: three bits of the header's mode. *)
RomMapping(bits) ==
  CASE bits = 0 -> "LoROM" [] bits = 1 -> "HiROM" [] bits = 2 -> "SDD1"
    [] bits = 3 -> "SA1" [] bits = 5 -> "ExHiROM" [] OTHER -> "Unknown"

(* The mappings for which to_snes is not an error, and its result for an   *)
(* offset into the ROM.                                                    *)
Supported(mapping) == mapping \in {"LoROM", "HiROM", "ExHiROM"}

ToSnes(mapping, a) ==
  CASE mapping = "LoROM" ->
         (IF a < Half THEN Mirror ELSE 0) + ((a \div Page) % 512) * Bank + Page + (a % Page)
    [] mapping = "HiROM" -> Mirror + Half + a
    [] mapping = "ExHiROM" -> (IF a < Half THEN Mirror + Half ELSE 0) + a

(* Mutant: the bank of the last byte is not the bank of the end.           *)
MapRomUnsplit(mapping, address, size) ==
  << [domain |-> "CARTROM", address |-> ToSnes(mapping, address), size |-> size] >>

(* Retroarch::map_addresses for one run of ROM: a piece for each bank.     *)
(* One that ends with its bank is followed by a piece of no bytes.         *)
MapRom(mapping, address, size) ==
  LET Piece(s, n) == << [domain |-> "CARTROM", address |-> s, size |-> n] >>
      Pieces[n \in Nat] ==
        [a \in Nat |->
          LET s == ToSnes(mapping, a)
              split == Bank - (s % Bank) IN
          IF s \div Bank = (s + n) \div Bank
          THEN Piece(s, n)
          ELSE Piece(s, split) \o Pieces[n - split][a + split]] IN
  Pieces[size][address]

(* The console's side of it: the byte of the ROM that the cartridge shows  *)
(* at a place on the bus, and where a mapping ends.                        *)
RomByte(mapping, s) ==
  CASE mapping = "LoROM" -> ((s \div Bank) % 128) * Page + (s % Page)
    [] mapping = "HiROM" -> s % Half
    [] mapping = "ExHiROM" -> (s % Half) + (IF s < Mirror THEN Half ELSE 0)

Reach(mapping) == IF mapping = "ExHiROM" THEN Mirror ELSE Half
=============================================================================
