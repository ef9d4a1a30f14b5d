----------------------------- MODULE MCDiskImage -----------------------------
\* Gadgets with the structures of the pc, pi and core gadgets, in small.
EXTENDS DiskImage

KiB == 1024
MiB == 1024 * KiB

S(role, offset, size) ==
    [role |-> role, offset |-> offset, size |-> size, min |-> size, offsetWrite |-> FALSE]
Volume(schema, structure) ==
    [schema |-> schema, bootloader |-> "grub", structure |-> structure]
One(schema, structure) ==
    [volumes |-> [v \in {"pc"} |-> Volume(schema, structure)],
     matches |-> <<"pc">>, declared |-> [v \in {"pc"} |-> 1]]

mbr == S("mbr", 0, 440)
pcStructures == <<mbr, [S("bios", MiB, MiB) EXCEPT !.offsetWrite = TRUE], S("data", 2 * MiB, 4 * MiB)>>
pi == <<S("boot", MiB, 16 * MiB)>>
uboot == <<S("bare", 64 * KiB, 512 * KiB), S("boot", MiB, 4 * MiB), S("data", 5 * MiB, MiB)>>
flexible == <<S("boot", MiB, 4 * MiB), [S("data", 5 * MiB, 64 * MiB) EXCEPT !.min = 4 * MiB],
              S("other", Unknown, 2 * MiB)>>
core == <<mbr, S("seed", MiB, 8 * MiB), S("boot", 9 * MiB, 4 * MiB),
          S("save", 13 * MiB, 4 * MiB), S("data", 17 * MiB, 16 * MiB)>>

OneVolume == {One(schema, s) : schema \in {"gpt", "mbr"}, s \in {pcStructures, pi, uboot, flexible, core}}

\* Three volumes, two with a boot partition, a name that ends another, and one
\* that comes again in another part of the text.
Many(first, second) ==
    [volumes |-> [v \in {"mypc", "pc", "sd"} |->
        CASE v = "mypc" -> Volume("gpt", first)
          [] v = "pc"   -> Volume("mbr", second)
          [] v = "sd"   -> Volume("emmc", <<S("bare", 0, MiB)>>)],
     matches |-> <<"mypc", "pc", "pc", "sd", "mypc", "pc">>,
     declared |-> [v \in {"mypc", "pc", "sd"} |->
                     CASE v = "mypc" -> 1 [] v = "pc" -> 3 [] v = "sd" -> 4]]
mid == <<mbr, S("boot", MiB, MiB), S("data", 2 * MiB, 4 * MiB)>>
boot == <<mbr, S("other", MiB, MiB), S("boot", 2 * MiB, MiB)>>
bios == <<mbr, S("bios", MiB, MiB)>>
plain == <<mbr, S("other", MiB, MiB)>>
ManyVolumes == {Many(a, b) : a \in {mid, pcStructures}, b \in {boot, bios, plain}}
                 \cup {Many(b, a) : a \in {mid}, b \in {boot, bios, plain}}

MCGadgets == OneVolume \cup ManyVolumes
\* The rootfs is not the last structure, and the next one has an offset.
MCMiddle == {One("gpt", <<S("boot", MiB, MiB), S("data", 2 * MiB, 4 * MiB),
                          S("other", 6 * MiB, 32 * MiB)>>)}

ASSUME RunAssumptions ==
    /\ \A g \in MCGadgets : WellLaid(g) /\ NoGaps(g) /\ WholeSectors(g) /\ NamedInOrder(g)
    /\ \A g \in MCMiddle : ~WellLaid(g)

All(size) == [by |-> "all", size |-> size]
Number(number, size) == [by |-> "number", number |-> number, size |-> size]
Name(name, size) == [by |-> "name", name |-> name, size |-> size]
\* 10 MiB is the least size of pcStructures without content: the size asked for
\* is above it, with and without the table.
MCSizeFlags == {<<>>, <<All(3 * MiB)>>, <<All(10 * MiB + 1000)>>,
                <<All(10 * MiB + 40000)>>, <<All(40 * MiB + 1000)>>,
                <<All(128 * MiB)>>, <<Name("pc", 64 * MiB), Number(0, 64 * MiB)>>,
                <<Number(1, 48 * MiB)>>, <<Number(-1, 48 * MiB)>>}
MCContentSizes == {0, 5 * MiB + 17, 60 * MiB}
MCPadding == 8 * MiB
=============================================================================
