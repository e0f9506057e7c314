------------------------------ MODULE DataUnits ------------------------------
(***************************************************************************)
(* The encryption of data units and headers, as five implementations do it  *)
(* for one volume: the C code of the driver and the Windows programs        *)
(* (Common/Crypto.c, Common/Xts.c), its boot loader builds, the C++ code of  *)
(* Unix (Volume/Encryption*.cpp) and the mappings handed to the Linux kernel *)
(* (Core/Unix/Linux/CoreLinux.cpp).  A buffer is a sequence of 8-byte halves *)
(* and a half is the sequence of the operations applied to it; an operation  *)
(* followed by its inverse cancels.                                          *)
(***************************************************************************)
EXTENDS Naturals, Integers, Sequences, FiniteSets

CONSTANTS
    DuUnits,        \* number of data units of the volume
    MaxDuWrites     \* bound: writes to the volume

VARIABLES
    duVol,     \* the volume: kind, algorithm, mode, hardware AES?
    duKeys,    \* the CRYPTO_INFO, EncryptionAlgorithm and kernel mappings of the volume and its header
    duDisk,    \* data unit -> its halves on the disk
    duPlain,   \* data unit -> the value last written
    duHeader,  \* the halves of the header on the disk
    duWhite,   \* a whitening value, as the set of its one bits
    duCount    \* writes so far

duVars == <<duVol, duKeys, duDisk, duPlain, duHeader, duWhite, duCount>>

BLOCKS_PER_XTS_DATA_UNIT == 2
HalvesPerUnit == 2 * BLOCKS_PER_XTS_DATA_UNIT
LEGACY_VOL_IV_SIZE == 32

-----------------------------------------------------------------------------
(* The tables of Crypto.c. *)
Ciphers == [
    AES       |-> [block |-> 16, key |-> 32, ks |-> 488],
    SERPENT   |-> [block |-> 16, key |-> 32, ks |-> 560],
    TWOFISH   |-> [block |-> 16, key |-> 32, ks |-> 4276],
    BLOWFISH  |-> [block |-> 8,  key |-> 56, ks |-> 4240],
    CAST      |-> [block |-> 8,  key |-> 16, ks |-> 128],
    TRIPLEDES |-> [block |-> 8,  key |-> 24, ks |-> 768]]

EncryptionAlgorithms == <<
    [ciphers |-> <<"AES">>,                        modes |-> {"XTS", "LRW", "CBC"}],
    [ciphers |-> <<"SERPENT">>,                    modes |-> {"XTS", "LRW", "CBC"}],
    [ciphers |-> <<"TWOFISH">>,                    modes |-> {"XTS", "LRW", "CBC"}],
    [ciphers |-> <<"TWOFISH", "AES">>,             modes |-> {"XTS", "LRW", "OUTER_CBC"}],
    [ciphers |-> <<"SERPENT", "TWOFISH", "AES">>,  modes |-> {"XTS", "LRW", "OUTER_CBC"}],
    [ciphers |-> <<"AES", "SERPENT">>,             modes |-> {"XTS", "LRW", "OUTER_CBC"}],
    [ciphers |-> <<"AES", "TWOFISH", "SERPENT">>,  modes |-> {"XTS", "LRW", "OUTER_CBC"}],
    [ciphers |-> <<"SERPENT", "TWOFISH">>,         modes |-> {"XTS", "LRW", "OUTER_CBC"}],
    [ciphers |-> <<"BLOWFISH">>,                   modes |-> {"LRW", "CBC"}],
    [ciphers |-> <<"CAST">>,                       modes |-> {"LRW", "CBC"}],
    [ciphers |-> <<"TRIPLEDES">>,                  modes |-> {"LRW", "CBC"}],
    [ciphers |-> <<"BLOWFISH", "AES">>,            modes |-> {"INNER_CBC"}],
    [ciphers |-> <<"SERPENT", "BLOWFISH", "AES">>, modes |-> {"INNER_CBC"}]>>
\* The algorithms of the boot loader builds: the first eight, in XTS mode.
BootAlgorithms == 1 .. 8

EAGetCipherCount(ea) == Len(EncryptionAlgorithms[ea].ciphers)
EAGetFirstCipher(ea) == EncryptionAlgorithms[ea].ciphers[1]
EAGetLastCipher(ea) == EncryptionAlgorithms[ea].ciphers[EAGetCipherCount(ea)]
\* The neighbours are found by the cipher, not by the position.
PositionOf(ea, c) == CHOOSE i \in 1 .. EAGetCipherCount(ea) : EncryptionAlgorithms[ea].ciphers[i] = c
EAGetNextCipher(ea, c) == EncryptionAlgorithms[ea].ciphers[PositionOf(ea, c) + 1]
EAGetPreviousCipher(ea, c) == EncryptionAlgorithms[ea].ciphers[PositionOf(ea, c) - 1]
\* Sums over the first n ciphers.
KeySizes(ea, n) ==
    LET sum[i \in 0 .. n] == IF i = 0 THEN 0 ELSE sum[i - 1] + Ciphers[EncryptionAlgorithms[ea].ciphers[i]].key
    IN sum[n]
EAGetKeySize(ea) == KeySizes(ea, EAGetCipherCount(ea))
EAGetKeyScheduleSize(ea) ==
    LET sum[i \in 0 .. EAGetCipherCount(ea)] ==
            IF i = 0 THEN 0 ELSE sum[i - 1] + Ciphers[EncryptionAlgorithms[ea].ciphers[i]].ks
    IN sum[EAGetCipherCount(ea)]
\* The loops over a cascade, as pairs of a cipher and a pointer into the key
\* schedule: from the first cipher upwards, from the last one downwards.
Forward(ea) ==
    LET walk[i \in 1 .. EAGetCipherCount(ea)] ==
            IF i = 1 THEN <<EAGetFirstCipher(ea), 0>>
            ELSE <<EAGetNextCipher(ea, walk[i - 1][1]), walk[i - 1][2] + Ciphers[walk[i - 1][1]].ks>>
    IN [i \in 1 .. EAGetCipherCount(ea) |-> walk[i]]
Backward(ea) ==
    LET walk[i \in 1 .. EAGetCipherCount(ea)] ==
            IF i = 1 THEN <<EAGetLastCipher(ea), EAGetKeyScheduleSize(ea) - Ciphers[EAGetLastCipher(ea)].ks>>
            ELSE LET c == EAGetPreviousCipher(ea, walk[i - 1][1])
                 IN <<c, walk[i - 1][2] - Ciphers[c].ks>>
    IN [i \in 1 .. EAGetCipherCount(ea) |-> walk[i]]
\* EAInit: the schedules of the ciphers one after the other in memory, each
\* from its part of the key.  Keys are places in the key area.
EAInit(ea, area, at) ==
    LET f == Forward(ea)
    IN {[at |-> f[i][2], cipher |-> f[i][1], key |-> <<area, at + KeySizes(ea, i - 1)>>] : i \in DOMAIN f}
\* What a cipher finds at a pointer; a schedule of another cipher is garbage.
ScheduleAt(ks, c, p) ==
    LET here == {s \in ks : s.at = p /\ s.cipher = c}
    IN IF here = {} THEN <<"garbage", p>> ELSE (CHOOSE s \in here : TRUE).key

-----------------------------------------------------------------------------
(* Operations on buffers. *)
Undo(layer) == IF layer[1] = "e" THEN [layer EXCEPT ![1] = "d"]
               ELSE IF layer[1] = "d" THEN [layer EXCEPT ![1] = "e"] ELSE layer
Layer(half, layer) ==
    IF half # <<>> /\ half[Len(half)] = Undo(layer) THEN SubSeq(half, 1, Len(half) - 1) ELSE Append(half, layer)
Xor(half, v) == Layer(half, <<"x", v>>)
\* A 16-byte cipher mixes two halves: each carries the other one it was mixed with.
Mixed(dir, a, b, c, k) == <<Append(a, <<dir, c, k, 1, b>>), Append(b, <<dir, c, k, 2, a>>)>>
Unmixed(dir, a, b, c, k) ==
    LET a1 == SubSeq(a, 1, Len(a) - 1)
        b1 == SubSeq(b, 1, Len(b) - 1)
    IN IF a # <<>> /\ b # <<>> /\ Mixed(dir, a1, b1, c, k) = <<a, b>> THEN <<a1, b1>>
       ELSE Mixed(IF dir = "e" THEN "d" ELSE "e", a, b, c, k)
EncipherBlock(c, block, k) ==
    IF Ciphers[c].block = 8 THEN <<Layer(block[1], <<"e", c, k>>)>> ELSE Unmixed("d", block[1], block[2], c, k)
DecipherBlock(c, block, k) ==
    IF Ciphers[c].block = 8 THEN <<Layer(block[1], <<"d", c, k>>)>> ELSE Unmixed("e", block[1], block[2], c, k)
CipherBlock(dir, c, block, k) == IF dir = "e" THEN EncipherBlock(c, block, k) ELSE DecipherBlock(c, block, k)
XorBlock(block, v) == [h \in 1 .. Len(block) |-> Xor(block[h], v[h])]
\* A cascade as pairs of a cipher and its key: what the pointers of C find.
Keyed(order, ks) == [i \in 1 .. Len(order) |-> <<order[i][1], ScheduleAt(ks, order[i][1], order[i][2])>>]
\* The cascade on one block.
CascadeBlock(dir, keyed, block) ==
    LET after[i \in 0 .. Len(keyed)] ==
            IF i = 0 THEN block ELSE CipherBlock(dir, keyed[i][1], after[i - 1], keyed[i][2])
    IN after[Len(keyed)]
Halves(c) == Ciphers[c].block \div 8
Block(buf, j, n) == SubSeq(buf, (j - 1) * n + 1, j * n)
\* The blocks of n halves put together again.
JoinedHalves(blocks, n) == [h \in 1 .. Len(blocks) * n |-> blocks[((h - 1) \div n) + 1][((h - 1) % n) + 1]]

-----------------------------------------------------------------------------
(* XTS. *)
\* The whitening value of a block: the unit number under the secondary key, doubled for every block.
Whitening(c, k2, unit, block) == [h \in 1 .. 2 |-> <<<<"w", c, k2, unit, block, h>>>>]
\* All blocks of a unit are whitened, then enciphered, then whitened.
XtsUnitParallel(dir, buf, unit, c, k, k2) ==
    LET n == Len(buf) \div 2
        pre == [j \in 1 .. n |-> XorBlock(Block(buf, j, 2), Whitening(c, k2, unit, j - 1))]
        mid == [j \in 1 .. n |-> CipherBlock(dir, c, pre[j], k)]
    IN JoinedHalves([j \in 1 .. n |-> XorBlock(mid[j], Whitening(c, k2, unit, j - 1))], 2)
\* One block after the other.
XtsUnitNonParallel(dir, buf, unit, c, k, k2) ==
    JoinedHalves([j \in 1 .. Len(buf) \div 2 |->
               LET w == Whitening(c, k2, unit, j - 1)
               IN XorBlock(CipherBlock(dir, c, XorBlock(Block(buf, j, 2), w), k), w)], 2)
UnitsOf(buf) == Len(buf) \div HalvesPerUnit
EncryptBufferXTSParallel(buf, unit, c, k, k2) ==
    JoinedHalves([u \in 1 .. UnitsOf(buf) |-> XtsUnitParallel("e", Block(buf, u, HalvesPerUnit), unit + u - 1, c, k, k2)], HalvesPerUnit)
EncryptBufferXTSNonParallel(buf, unit, c, k, k2) ==
    JoinedHalves([u \in 1 .. UnitsOf(buf) |-> XtsUnitNonParallel("e", Block(buf, u, HalvesPerUnit), unit + u - 1, c, k, k2)], HalvesPerUnit)
DecryptBufferXTSParallel(buf, unit, c, k, k2) ==
    JoinedHalves([u \in 1 .. UnitsOf(buf) |-> XtsUnitParallel("d", Block(buf, u, HalvesPerUnit), unit + u - 1, c, k, k2)], HalvesPerUnit)
DecryptBufferXTSNonParallel(buf, unit, c, k, k2) ==
    JoinedHalves([u \in 1 .. UnitsOf(buf) |-> XtsUnitNonParallel("d", Block(buf, u, HalvesPerUnit), unit + u - 1, c, k, k2)], HalvesPerUnit)
\* The boot loader has no 64-bit integers: the unit number is two words, of
\* UnitWord values here, and the low one carries into the high one.
UnitWord == 4
EncryptDecryptBufferXTS32(dir, buf, high, low, c, k, k2) ==
    LET no[u \in 1 .. UnitsOf(buf)] ==
            IF u = 1 THEN <<high, low>>
            ELSE LET l == (no[u - 1][2] + 1) % UnitWord
                 IN <<IF l = 0 THEN no[u - 1][1] + 1 ELSE no[u - 1][1], l>>
    IN JoinedHalves([u \in 1 .. UnitsOf(buf) |->
                  XtsUnitNonParallel(dir, Block(buf, u, HalvesPerUnit), no[u][1] * UnitWord + no[u][2], c, k, k2)], HalvesPerUnit)
\* Hardware AES takes the parallel form.
BufferXTS(dir, hw, buf, unit, c, k, k2) ==
    IF dir = "e" THEN (IF hw /\ c = "AES" THEN EncryptBufferXTSParallel(buf, unit, c, k, k2)
                       ELSE EncryptBufferXTSNonParallel(buf, unit, c, k, k2))
    ELSE (IF hw /\ c = "AES" THEN DecryptBufferXTSParallel(buf, unit, c, k, k2)
          ELSE DecryptBufferXTSNonParallel(buf, unit, c, k, k2))

-----------------------------------------------------------------------------
(* LRW and CBC, the modes of old volumes. *)
LrwTweak(area, index, n) == [h \in 1 .. n |-> <<<<"l", area, index, h>>>>]
EncryptBufferLRW(buf, index, keyed, area) ==
    LET n == Halves(keyed[1][1])
    IN JoinedHalves([j \in 1 .. Len(buf) \div n |->
                  LET t == LrwTweak(area, index + j - 1, n)
                  IN XorBlock(CascadeBlock("e", keyed, XorBlock(Block(buf, j, n), t)), t)], n)
DecryptBufferLRW(buf, index, keyed, area) ==
    LET n == Halves(keyed[1][1])
    IN JoinedHalves([j \in 1 .. Len(buf) \div n |->
                  LET t == LrwTweak(area, index + j - 1, n)
                  IN XorBlock(CascadeBlock("d", keyed, XorBlock(Block(buf, j, n), t)), t)], n)

\* The vectors of a unit come from the seed and the unit number, those of a
\* header (unit -1) are the seed itself, its second half twice.
InitSectorIVAndWhitening(area, unit, n) ==
    [iv |-> [h \in 1 .. n |-> <<<<"i", area, h, unit>>>>],
     wh |-> [h \in 1 .. n |-> IF unit = -1 THEN <<<<"i", area, 2, -1>>>> ELSE <<<<"c", area, n, unit>>>>]]
EncryptBufferCBC(buf, keyed, v) ==
    LET n == Halves(keyed[1][1])
        st[j \in 0 .. Len(buf) \div n] ==
            IF j = 0 THEN [out |-> <<>>, iv |-> v.iv]
            ELSE LET y == CascadeBlock("e", keyed, XorBlock(Block(buf, j, n), st[j - 1].iv))
                 IN [out |-> st[j - 1].out \o XorBlock(y, v.wh), iv |-> y]
    IN st[Len(buf) \div n].out
DecryptBufferCBC(buf, keyed, v) ==
    LET n == Halves(keyed[1][1])
        st[j \in 0 .. Len(buf) \div n] ==
            IF j = 0 THEN [out |-> <<>>, iv |-> v.iv]
            ELSE LET ct == XorBlock(Block(buf, j, n), v.wh)
                 IN [out |-> st[j - 1].out \o XorBlock(CascadeBlock("d", keyed, ct), st[j - 1].iv), iv |-> ct]
    IN st[Len(buf) \div n].out
BufferCBC(dir, buf, keyed, v) == IF dir = "e" THEN EncryptBufferCBC(buf, keyed, v) ELSE DecryptBufferCBC(buf, keyed, v)
\* One pass over the buffer for each cipher (CBC, inner-CBC).
InnerCBC(dir, buf, keyed, area, unit) ==
    LET pass[i \in 0 .. Len(keyed)] ==
            IF i = 0 THEN buf
            ELSE BufferCBC(dir, pass[i - 1], <<keyed[i]>>, InitSectorIVAndWhitening(area, unit, Halves(keyed[i][1])))
    IN pass[Len(keyed)]
OuterCBC(dir, buf, keyed, area, unit) ==
    BufferCBC(dir, buf, keyed, InitSectorIVAndWhitening(area, unit, Halves(keyed[1][1])))

-----------------------------------------------------------------------------
(* The C code. *)
DuVolumes ==
    {v \in [kind : {"file", "hidden", "system"}, ea : DOMAIN EncryptionAlgorithms,
            mode : {"XTS", "LRW", "CBC", "OUTER_CBC", "INNER_CBC"}, hw : BOOLEAN] :
        /\ v.mode \in EncryptionAlgorithms[v.ea].modes
        /\ v.kind = "system" => v.mode = "XTS" /\ v.ea \in BootAlgorithms
        /\ v.hw => v.mode = "XTS"}
Order(dir, ea) == IF dir = "e" THEN Forward(ea) ELSE Backward(ea)
\* The CRYPTO_INFO of a volume ("m", its master keys) or of a header ("h"), with the
\* ciphers and keys that the loops over the cascade find in either direction.
CryptoInfo(vol, area) ==
    LET keyed(at) == [dir \in {"e", "d"} |-> Keyed(Order(dir, vol.ea), EAInit(vol.ea, area, at))]
    IN [ea |-> vol.ea, mode |-> vol.mode, area |-> area, hidden |-> vol.kind = "hidden",
        ks |-> keyed(IF vol.mode = "XTS" THEN 0 ELSE LEGACY_VOL_IV_SIZE),
        ks2 |-> IF vol.mode = "XTS" THEN keyed(EAGetKeySize(vol.ea)) ELSE <<>>]
\* The first data unit of the data area, counted from the start of the host.
DataStart(vol) == CASE vol.kind = "hidden" -> 5 [] vol.kind = "system" -> 3
                    [] OTHER -> IF vol.mode = "XTS" THEN 2 ELSE 1
DataUnit2LRWIndex(unit, n, ci, start) ==
    (unit - (IF ci.hidden THEN start ELSE 1)) * (HalvesPerUnit \div n) + 1
XtsCascade(dir, hw, buf, unit, ci) ==
    LET keyed == ci.ks[dir]
        keyed2 == ci.ks2[dir]
        pass[i \in 0 .. Len(keyed)] ==
            IF i = 0 THEN buf ELSE BufferXTS(dir, hw, pass[i - 1], unit, keyed[i][1], keyed[i][2], keyed2[i][2])
    IN pass[Len(keyed)]
CbcUnits(dir, buf, unit, ci) ==
    LET keyed == ci.ks[dir]
    IN JoinedHalves([u \in 1 .. UnitsOf(buf) |->
                  LET part == Block(buf, u, HalvesPerUnit)
                  IN IF ci.mode = "OUTER_CBC" THEN OuterCBC(dir, part, keyed, ci.area, unit + u - 1)
                     ELSE InnerCBC(dir, part, keyed, ci.area, unit + u - 1)], HalvesPerUnit)
EncryptDataUnits(vol, buf, unit) ==
    LET ci == duKeys.driver
    IN CASE ci.mode = "XTS" -> XtsCascade("e", vol.hw, buf, unit, ci)
         [] ci.mode = "LRW" -> EncryptBufferLRW(buf, DataUnit2LRWIndex(unit, Halves(EAGetFirstCipher(ci.ea)), ci, DataStart(vol)),
                                                ci.ks["e"], ci.area)
         [] OTHER -> CbcUnits("e", buf, unit, ci)
DecryptDataUnits(vol, buf, unit) ==
    LET ci == duKeys.driver
    IN CASE ci.mode = "XTS" -> XtsCascade("d", vol.hw, buf, unit, ci)
         [] ci.mode = "LRW" -> DecryptBufferLRW(buf, DataUnit2LRWIndex(unit, Halves(EAGetFirstCipher(ci.ea)), ci, DataStart(vol)),
                                                ci.ks["d"], ci.area)
         [] OTHER -> CbcUnits("d", buf, unit, ci)
\* Headers: unit 0 in XTS, index 1 in LRW, the seed itself in CBC.
EncryptBuffer(vol, buf) ==
    LET ci == duKeys.header
        keyed == ci.ks["e"]
    IN CASE ci.mode = "XTS" -> XtsCascade("e", vol.hw, buf, 0, ci)
         [] ci.mode = "LRW" -> EncryptBufferLRW(buf, 1, keyed, ci.area)
         [] ci.mode = "OUTER_CBC" -> OuterCBC("e", buf, keyed, ci.area, -1)
         [] OTHER -> InnerCBC("e", buf, keyed, ci.area, -1)
DecryptBuffer(vol, buf) ==
    LET ci == duKeys.header
        keyed == ci.ks["d"]
    IN CASE ci.mode = "XTS" -> XtsCascade("d", vol.hw, buf, 0, ci)
         [] ci.mode = "LRW" -> DecryptBufferLRW(buf, 1, keyed, ci.area)
         [] ci.mode = "OUTER_CBC" -> OuterCBC("d", buf, keyed, ci.area, -1)
         [] OTHER -> InnerCBC("d", buf, keyed, ci.area, -1)
\* The boot loader builds: all algorithms, or one cipher at pointer 0.
BootUnits(dir, vol, buf, unit) ==
    LET ci == duKeys.driver
        keyed == ci.ks[dir]
        keyed2 == ci.ks2[dir]
        pass[i \in 0 .. Len(keyed)] ==
            IF i = 0 THEN buf
            ELSE EncryptDecryptBufferXTS32(dir, pass[i - 1], unit \div UnitWord, unit % UnitWord,
                                           keyed[i][1], keyed[i][2], keyed2[i][2])
    IN pass[Len(keyed)]
SingleCipherUnits(dir, vol, buf, unit) ==
    EncryptDecryptBufferXTS32(dir, buf, unit \div UnitWord, unit % UnitWord,
                              EAGetFirstCipher(vol.ea), <<"m", 0>>, <<"m", 32>>)

-----------------------------------------------------------------------------
(* The C++ code. *)
\* GetAvailableAlgorithms: the ciphers in the order they are pushed.
CppAlgorithms == <<
    <<"AES">>, <<"SERPENT">>, <<"TWOFISH">>, <<"TWOFISH", "AES">>, <<"SERPENT", "TWOFISH", "AES">>,
    <<"AES", "SERPENT">>, <<"AES", "TWOFISH", "SERPENT">>, <<"SERPENT", "TWOFISH">>,
    <<"BLOWFISH", "AES">>, <<"SERPENT", "BLOWFISH", "AES">>, <<"BLOWFISH">>, <<"CAST">>, <<"TRIPLEDES">>>>
\* The name lists the ciphers from the last to the first.
NameOf(ciphers) == [i \in 1 .. Len(ciphers) |-> ciphers[Len(ciphers) + 1 - i]]
CppAlgorithm(ea) ==
    CppAlgorithms[CHOOSE i \in DOMAIN CppAlgorithms : NameOf(CppAlgorithms[i]) = NameOf(EncryptionAlgorithms[ea].ciphers)]
\* SetKey: every cipher takes the next part of the key.
SetKey(ciphers, area, at) ==
    LET offset[i \in 1 .. Len(ciphers)] == IF i = 1 THEN at ELSE offset[i - 1] + Ciphers[ciphers[i - 1]].key
    IN [i \in 1 .. Len(ciphers) |-> <<ciphers[i], <<area, offset[i]>>>>]
\* The keys of the algorithm and of the mode, as a header sets them.
CppEA(vol, area) ==
    LET ciphers == CppAlgorithm(vol.ea)
        size == KeySizes(vol.ea, Len(ciphers))
    IN [mode |-> IF vol.mode \in {"INNER_CBC", "OUTER_CBC"} THEN "CBC" ELSE vol.mode, area |-> area,
        keyed |-> SetKey(ciphers, area, IF vol.mode = "XTS" THEN 0 ELSE LEGACY_VOL_IV_SIZE),
        secondary |-> IF vol.mode = "XTS" THEN SetKey(ciphers, area, size) ELSE <<>>,
        offset |-> 0]
\* Volume::Open sets the sector offset of the mode.
CppOpened(vol) ==
    [CppEA(vol, "m") EXCEPT !.offset = IF vol.kind = "system" \/ vol.mode = "LRW" THEN DataStart(vol) ELSE 0]
Reversed(list) == [i \in 1 .. Len(list) |-> list[Len(list) + 1 - i]]
CppEncryptBufferXTS(buf, unit, c, k, k2) == EncryptBufferXTSParallel(buf, unit, c, k, k2)
CppDecryptBufferXTS(buf, unit, c, k, k2) == DecryptBufferXTSParallel(buf, unit, c, k, k2)
CppEncryptXTS(ea, buf, unit) ==
    LET pass[i \in 0 .. Len(ea.keyed)] ==
            IF i = 0 THEN buf
            ELSE CppEncryptBufferXTS(pass[i - 1], unit + ea.offset, ea.keyed[i][1], ea.keyed[i][2], ea.secondary[i][2])
    IN pass[Len(ea.keyed)]
CppDecryptXTS(ea, buf, unit) ==
    LET keyed == Reversed(ea.keyed)
        secondary == Reversed(ea.secondary)
        pass[i \in 0 .. Len(keyed)] ==
            IF i = 0 THEN buf
            ELSE CppDecryptBufferXTS(pass[i - 1], unit + ea.offset, keyed[i][1], keyed[i][2], secondary[i][2])
    IN pass[Len(keyed)]
CppEncryptLRW(ea, buf, index) == EncryptBufferLRW(buf, index, ea.keyed, ea.area)
CppDecryptLRW(ea, buf, index) == DecryptBufferLRW(buf, index, Reversed(ea.keyed), ea.area)
SectorToBlockIndex(ea, unit) == (unit - ea.offset) * (HalvesPerUnit \div Halves(ea.keyed[1][1])) + 1
\* Outer-CBC is recognised: a cascade of equal block sizes.
IsOuterCBC(ea) == Len(ea.keyed) >= 2 /\ \A i \in DOMAIN ea.keyed : Halves(ea.keyed[i][1]) = Halves(ea.keyed[1][1])
CppEncryptCBC(ea, buf, unit) ==
    IF IsOuterCBC(ea) THEN OuterCBC("e", buf, ea.keyed, ea.area, unit) ELSE InnerCBC("e", buf, ea.keyed, ea.area, unit)
CppDecryptCBC(ea, buf, unit) ==
    IF IsOuterCBC(ea) THEN OuterCBC("d", buf, Reversed(ea.keyed), ea.area, unit)
    ELSE InnerCBC("d", buf, Reversed(ea.keyed), ea.area, unit)
CbcSectors(dir, ea, buf, unit) ==
    JoinedHalves([u \in 1 .. UnitsOf(buf) |->
               LET part == Block(buf, u, HalvesPerUnit)
               IN IF dir = "e" THEN CppEncryptCBC(ea, part, unit + u - 1) ELSE CppDecryptCBC(ea, part, unit + u - 1)], HalvesPerUnit)
SectorsCurrentThread(dir, ea, buf, unit) ==
    CASE ea.mode = "XTS" /\ dir = "e" -> CppEncryptXTS(ea, buf, unit)
      [] ea.mode = "XTS" /\ dir = "d" -> CppDecryptXTS(ea, buf, unit)
      [] ea.mode = "LRW" /\ dir = "e" -> CppEncryptLRW(ea, buf, SectorToBlockIndex(ea, unit))
      [] ea.mode = "LRW" /\ dir = "d" -> CppDecryptLRW(ea, buf, SectorToBlockIndex(ea, unit))
      [] OTHER -> CbcSectors(dir, ea, buf, unit)
\* DoWork of the C++ pool: at most ThreadCount fragments, the first ones a
\* unit longer when the units do not divide evenly.
FragmentThreads == 2
FragmentSizes(count) ==
    IF count <= FragmentThreads THEN [i \in 1 .. count |-> [start |-> i - 1, units |-> 1]]
    ELSE LET per == count \div FragmentThreads
             rem == count % FragmentThreads
             units(i) == IF i <= rem THEN per + 1 ELSE per
             start[i \in 1 .. FragmentThreads] == IF i = 1 THEN 0 ELSE start[i - 1] + units(i - 1)
         IN [i \in 1 .. FragmentThreads |-> [start |-> start[i], units |-> units(i)]]
FragmentsWork(dir, ea, buf, unit) ==
    LET f == FragmentSizes(UnitsOf(buf))
        done[i \in 0 .. Len(f)] ==
            IF i = 0 THEN <<>>
            ELSE done[i - 1] \o SectorsCurrentThread(dir, ea,
                     SubSeq(buf, f[i].start * HalvesPerUnit + 1, (f[i].start + f[i].units) * HalvesPerUnit), unit + f[i].start)
    IN done[Len(f)]
\* ReadSectors and WriteSectors: the offset on the host, which for a system
\* partition is counted from the partition.
HostUnit(vol, d) == IF vol.kind = "system" THEN d ELSE DataStart(vol) + d
\* Headers, with a new mode object: its sector offset is 0.
EncryptNew(vol, buf) ==
    LET ea == duKeys.unixHeader
    IN CASE ea.mode = "XTS" -> CppEncryptXTS(ea, buf, 0)
         [] ea.mode = "LRW" -> CppEncryptLRW(ea, buf, 1)
         [] OTHER -> CppEncryptCBC(ea, buf, -1)
CppDecryptHeader(vol, buf) ==
    LET ea == duKeys.unixHeader
    IN CASE ea.mode = "XTS" -> CppDecryptXTS(ea, buf, 0)
         [] ea.mode = "LRW" -> CppDecryptLRW(ea, buf, 1)
         [] OTHER -> CppDecryptCBC(ea, buf, -1)

-----------------------------------------------------------------------------
(* The kernel: one mapping for each cipher, the last cipher at the host. *)
NativeMappings(vol) ==
    LET ea == CppOpened(vol)
        n == Len(ea.keyed)
        start == IF vol.kind = "system" THEN 0 ELSE DataStart(vol)
        at[i \in 1 .. n] == IF i = 1 THEN EAGetKeySize(vol.ea) - Ciphers[ea.keyed[n][1]].key
                            ELSE at[i - 1] - Ciphers[ea.keyed[n + 1 - i][1]].key
    IN [i \in 1 .. n |->
           [cipher |-> ea.keyed[n + 1 - i][1], key |-> ea.keyed[n + 1 - i][2],
            key2 |-> IF vol.mode = "XTS" THEN <<"m", EAGetKeySize(vol.ea) + at[i]>> ELSE <<"m", 0>>,
            iv |-> IF vol.mode = "XTS" THEN start + ea.offset ELSE 0]]
\* dm-crypt: the sectors of a mapping are numbered from 0, plus its iv offset.
KernelUnits(dir, vol, buf, d) ==
    LET m == duKeys.kernel[dir]
        pass[i \in 0 .. Len(m)] ==
            IF i = 0 THEN buf
            ELSE IF vol.mode = "XTS" THEN BufferXTS(dir, FALSE, pass[i - 1], m[i].iv + d, m[i].cipher, m[i].key, m[i].key2)
            ELSE LET index == (m[i].iv + d) * BLOCKS_PER_XTS_DATA_UNIT + 1
                 IN IF dir = "e" THEN EncryptBufferLRW(pass[i - 1], index, <<<<m[i].cipher, m[i].key>>>>, "m")
                    ELSE DecryptBufferLRW(pass[i - 1], index, <<<<m[i].cipher, m[i].key>>>>, "m")
    IN pass[Len(m)]
KernelServes(vol) ==
    vol.mode = "XTS" \/ (vol.mode = "LRW" /\ EAGetCipherCount(vol.ea) = 1 /\ Ciphers[EAGetFirstCipher(vol.ea)].block = 16)

-----------------------------------------------------------------------------
(* The next whitening value, for blocks of 32 bits in place of 128. *)
Words(w, size) == w * size .. w * size + size - 1
Carried(bits, carry) == IF carry THEN (bits \ {0, 1, 2, 7}) \cup ({0, 1, 2, 7} \ bits) ELSE bits
\* Two words, the high one first.
NextWhitening64(v) ==
    LET hi == {b + 1 : b \in v \cap (Words(1, 16) \ {31})} \cup (IF 15 \in v THEN {16} ELSE {})
        lo == {b + 1 : b \in v \cap (Words(0, 16) \ {15})}
    IN Carried(hi \cup lo, 31 \in v)
\* Four words, from the highest down: a carry goes into a word already shifted.
ShiftWord(v, w) ==
    LET top == w * 8 + 7
    IN (v \ Words(w, 8)) \cup {b + 1 : b \in v \cap (Words(w, 8) \ {top})}
         \cup (IF top \in v /\ w # 3 THEN {top + 1} ELSE {})
NextWhitening32(v) == Carried(ShiftWord(ShiftWord(ShiftWord(ShiftWord(v, 3), 2), 1), 0), 31 \in v)

-----------------------------------------------------------------------------
NoDuVolume == [kind |-> "none", ea |-> 1, mode |-> "XTS", hw |-> FALSE]
\* The programs that serve a volume.
Serving(vol) ==
    {"driver", "unix"} \cup (IF KernelServes(vol) THEN {"kernel"} ELSE {})
        \cup (IF vol.kind = "system" THEN {"boot"} ELSE {})
        \cup (IF vol.kind = "system" /\ EAGetCipherCount(vol.ea) = 1 THEN {"bootsingle"} ELSE {})
\* Data units d, d + 1, ... of the data area through a program.
Through(program, dir, vol, buf, d) ==
    CASE program = "driver" -> IF dir = "e" THEN EncryptDataUnits(vol, buf, DataStart(vol) + d)
                               ELSE DecryptDataUnits(vol, buf, DataStart(vol) + d)
      [] program = "unix" -> FragmentsWork(dir, duKeys.unix, buf, HostUnit(vol, d))
      [] program = "kernel" -> KernelUnits(dir, vol, buf, d)
      [] program = "boot" -> BootUnits(dir, vol, buf, DataStart(vol) + d)
      [] OTHER -> SingleCipherUnits(dir, vol, buf, DataStart(vol) + d)
UnitValue(value) == [h \in 1 .. HalvesPerUnit |-> <<<<"p", value, h>>>>]
UnitsBuffer(units, d, n) == JoinedHalves([u \in 1 .. n |-> units[d + u - 1]], HalvesPerUnit)
UnitRanges == {r \in (0 .. DuUnits - 1) \X (1 .. DuUnits) : r[1] + r[2] <= DuUnits}

\* What the programs keep of the keys while the volume is mounted.
KeysOf(vol) ==
    [driver |-> CryptoInfo(vol, "m"), header |-> CryptoInfo(vol, "h"), unix |-> CppOpened(vol), unixHeader |-> CppEA(vol, "h"),
     kernel |-> [e |-> Reversed(NativeMappings(vol)), d |-> NativeMappings(vol)]]

DuInit ==
    /\ duCount = 0
    /\ \/ /\ duVol \in DuVolumes /\ duWhite = {} /\ duKeys = KeysOf(duVol)
          /\ duPlain = [u \in 0 .. DuUnits - 1 |-> 0]
          /\ \E plain \in {UnitsBuffer([u \in 0 .. DuUnits - 1 |-> UnitValue(0)], 0, DuUnits)} :
             \E buf \in {EncryptDataUnits(duVol, plain, DataStart(duVol))} :
                duDisk = [u \in 0 .. DuUnits - 1 |-> Block(buf, u + 1, HalvesPerUnit)]
          /\ \E plain \in {UnitValue(0)} : duHeader = EncryptBuffer(duVol, plain)
       \/ /\ duVol = NoDuVolume /\ duWhite \in SUBSET {0, 7, 8, 15, 16, 23, 24, 31}
          /\ duKeys = <<>> /\ duPlain = <<>> /\ duDisk = <<>> /\ duHeader = <<>>
\* A program writes units.
WriteUnits(program, d, n) ==
    /\ duVol # NoDuVolume /\ duCount < MaxDuWrites
    /\ duCount' = duCount + 1
    /\ duPlain' = [u \in DOMAIN duPlain |-> IF u \in d .. d + n - 1 THEN duCount' ELSE duPlain[u]]
    /\ \E plain \in {UnitsBuffer([u \in d .. d + n - 1 |-> UnitValue(duCount')], d, n)} :
       \E buf \in {Through(program, "e", duVol, plain, d)} :
          duDisk' = [u \in DOMAIN duDisk |-> IF u \in d .. d + n - 1 THEN Block(buf, u - d + 1, HalvesPerUnit) ELSE duDisk[u]]
    /\ UNCHANGED <<duVol, duKeys, duHeader, duWhite>>
\* The header is written again: a new password, a header restored.
WriteVolumeHeader(program) ==
    /\ duVol # NoDuVolume /\ duCount < MaxDuWrites
    /\ duCount' = duCount + 1
    /\ \E plain \in {UnitValue(0)} :
          duHeader' = IF program = "driver" THEN EncryptBuffer(duVol, plain) ELSE EncryptNew(duVol, plain)
    /\ UNCHANGED <<duVol, duKeys, duPlain, duDisk, duWhite>>
NextBlock ==
    /\ duVol = NoDuVolume /\ duCount < MaxDuWrites
    /\ duCount' = duCount + 1 /\ duWhite' = NextWhitening64(duWhite)
    /\ UNCHANGED <<duVol, duKeys, duPlain, duDisk, duHeader>>
DuNext ==
    \/ \E program \in Serving(duVol) : \E r \in UnitRanges : WriteUnits(program, r[1], r[2])
    \/ \E program \in {"driver", "unix"} : WriteVolumeHeader(program)
    \/ NextBlock
DuSpec == DuInit /\ [][DuNext]_duVars

-----------------------------------------------------------------------------
\* Whatever program wrote the units of a volume, and in what portions, every
\* program that serves the volume reads them back, in any portions
\* (EncryptDataUnits, EncryptSectors, the boot loader's 32-bit code, dm-crypt).
ProgramsAgree ==
    duVol = NoDuVolume \/ \A program \in Serving(duVol), r \in UnitRanges : \A buf \in {UnitsBuffer(duDisk, r[1], r[2])} :
        Through(program, "d", duVol, buf, r[1])
            = UnitsBuffer([u \in DOMAIN duPlain |-> UnitValue(duPlain[u])], r[1], r[2])
\* A header written by the C code or the C++ code, for a new volume or again
\* for one that is mounted, is read by both (EncryptBuffer, EncryptNew).
HeaderOpensEverywhere ==
    duVol = NoDuVolume \/ (DecryptBuffer(duVol, duHeader) = UnitValue(0) /\ CppDecryptHeader(duVol, duHeader) = UnitValue(0))
\* The word-wise shifts of the 64-bit and the 32-bit code both multiply a
\* whitening value by x modulo the polynomial of the field (Xts.c).
WhiteningDoubles ==
    duWhite = {} \/
    LET double == Carried({b + 1 : b \in duWhite \ {31}}, 31 \in duWhite)
    IN NextWhitening64(duWhite) = double /\ NextWhitening32(duWhite) = double

(* All programs encrypt a sector with the same key, unit number and order of ciphers,
   and a header written by one opens in the others. *)
EncryptionAgrees == ProgramsAgree /\ HeaderOpensEverywhere /\ WhiteningDoubles
==============================================================================
