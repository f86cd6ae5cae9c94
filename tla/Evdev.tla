------------------------------- MODULE Evdev -------------------------------
(***************************************************************************)
(* What a device can send, as internal/evdev finds out: the ioctl requests *)
(* of init (input.go), the bit arrays the kernel fills, and the test of    *)
(* one bit.  A request is a number without its direction bits, which are   *)
(* "read" in all of them; its fields are added where the code ors them.    *)
(***************************************************************************)
EXTENDS Integers

CONSTANTS
  WordBits,  \* bits of a uintptr
  Caps       \* for each input device and event type, the codes it can send

ASSUME WordBitsAssumption == WordBits \in {32, 64}

----------------------------------------------------------------------------
(* Requests *)

EvRel == 2
EvAbs == 3
EvKey == 1
EvMsc == 4
EvSw == 5
EvLed == 17
EvSnd == 18
EvFf == 21

\* The kernel's keys are numbered up to KEY_MAX.
ASSUME CapsAssumption ==
  \A n \in DOMAIN Caps : EvKey \in DOMAIN Caps[n] => Caps[n][EvKey] \subseteq 0 .. 767

\* The arrays of Device, the type init asks for each, and the number of codes.
TypeOf ==
  [REL |-> EvRel, ABS |-> EvAbs, LED |-> EvLed, KEY |-> EvKey, SW |-> EvSw,
   MSC |-> EvMsc, FF |-> EvFf, SND |-> EvSnd]
CodeCount ==
  [REL |-> 16, ABS |-> 64, LED |-> 16, KEY |-> 768, SW |-> 17, MSC |-> 8,
   FF |-> 128, SND |-> 8]
Arrays == DOMAIN TypeOf

\* Rounded up by a word rather than a byte, so that arrays are longer than
\* their codes need.
ArrayBytes(count) == (count + WordBits - 1) \div 8

Ioc(nr, size) == size * 65536 + 69 * 256 + nr

\* Mutant of Eviocgbit: the number of the type alone.
EviocgbitBare(ev, length) == Ioc(ev, length)

Eviocgbit(ev, length) == Ioc(32 + ev, length)

\* The kernel's side: the fields it takes a request apart into.
RequestNr(req) == req % 256
RequestSize(req) == (req \div 65536) % 16384

\* EVIOCGBIT: the supported types, or the codes of one type, cut to the size
\* the request gives.
KernelBits(node, req) ==
  LET ev == RequestNr(req) - 32
      all == IF ev = 0 THEN {0} \cup DOMAIN Caps[node]
             ELSE IF ev \in DOMAIN Caps[node] THEN Caps[node][ev] ELSE {}
  IN  {b \in all : b < 8 * RequestSize(req)}

----------------------------------------------------------------------------
(* Device *)

\* What init, if every ioctl succeeds, leaves in d.bits and the other arrays.
FilledArray(node, ev, bytes) ==
  [bytes |-> bytes, set |-> KernelBits(node, Eviocgbit(ev, bytes))]
DeviceOf(node) ==
  [types |-> FilledArray(node, 0, 31),
   codes |-> [a \in Arrays |->
                FilledArray(node, TypeOf[a], ArrayBytes(CodeCount[a]))]]

\* isBitSet: an index beyond the array panics.
IsBitSet(array, bit) ==
  IF bit \div 8 >= array.bytes THEN "panic"
  ELSE IF bit \in array.set THEN "yes" ELSE "no"

\* typeCodes: the array of a type, for the types that have one.
TypeCodes ==
  [t \in {EvKey, EvRel, EvAbs, EvMsc, EvSw, EvLed, EvSnd, EvFf} |->
     CASE t = EvKey -> "KEY" [] t = EvRel -> "REL" [] t = EvAbs -> "ABS"
       [] t = EvMsc -> "MSC" [] t = EvSw -> "SW" [] t = EvLed -> "LED"
       [] t = EvSnd -> "SND" [] t = EvFf -> "FF"]

HasEventType(dev, t) == IsBitSet(dev.types, t)

\* For a type without an array typeCodes returns nil, and any index panics.
HasEventCode(dev, t, code) ==
  IF HasEventType(dev, t) # "yes" THEN HasEventType(dev, t)
  ELSE IF t \notin DOMAIN TypeCodes THEN "panic"
  ELSE IsBitSet(dev.codes[TypeCodes[t]], code)
=============================================================================
