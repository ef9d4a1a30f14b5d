CONSTANTS
    MountPoints <- MCMountPoints
    Inside <- MCInside
    BootPartitions = {TRUE, FALSE}
    Series = {"jammy", "newer", "unknown"}
    BIOS = {TRUE, FALSE}
    Originals = {"file", "link"}
    Faults = {"losetup", "setup", "copy", "mkdir", "restore", "release", "undivert", "mounted", "kill"}
    MaxFaults = 2
SPECIFICATION Spec
INVARIANTS
    TypeOK
    Released
    ImageRestored
    HostNotScanned
CHECK_DEADLOCK FALSE
