CONSTANTS
    Disks <- MCDisks
    Layouts <- MCLayouts
    GuestOsChoices = {"auto", "windows9-64"}
    FirmwareChoices = {"auto", "bios", "efi"}
    PwChoices = {"auto", "none", "linux", "windows"}
SPECIFICATION Spec
INVARIANTS
    TypeOK
    VmxGuestAndFirmware
    SamResetExact
CHECK_DEADLOCK FALSE
