CONSTANTS
  Chips <- ChipsMC
  IdOf <- IdOfMC
  RailOf <- RailOfMC
  NoRail = 128
  None = None

SPECIFICATION Spec

INVARIANT TypeOK
INVARIANT DevicesFound
INVARIANT PhasesCounted
INVARIANT DevicesObeyed
INVARIANT LabelsTrue
