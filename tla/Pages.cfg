CONSTANTS
  PAGE_MAX = 4
  MaxInputs = 4
SPECIFICATION FairSpec
INVARIANT FreezeIsPrompt
PROPERTY ShownFollowsChosen
