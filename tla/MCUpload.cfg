CONSTANTS
  Roots = {"backups", "back#ups"}
  Names = {"base", "ba%se"}
  Special = {"back#ups", "ba%se"}
  Total = 5
  PartSizes = {2}
  MaxCalls = 4
SPECIFICATION Spec
INVARIANTS
  TypeOK
  UploadFaithful
  ReadExact
  DeleteLeavesNothing
