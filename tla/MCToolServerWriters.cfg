\* A validation while another process saves the record.
SPECIFICATION Spec
CONSTANTS
    None = None
    Ids = {1, 2}
    Walkers = {}
    Validators = {c}
    Limits = {1}
    Filters = {None}
    MaxChanges = 1
    MaxWalks = 1
PROPERTY
    WritersAreSerialized
CHECK_DEADLOCK FALSE
